---- MODULE Spec2Model ----
(***************************************************************************)
(* Model of the analytics core of MeuChatBot (src/app.py): the daily       *)
(* series builder, the trend/confidence read, the spike detector, the      *)
(* volume forecast and the theme classifier.                               *)
(*                                                                         *)
(* Python floats are IEEE-754 binary64.  They are modelled bit-exactly as  *)
(* (sign, 53-bit mantissa, exponent) with round-to-nearest-even, the       *)
(* mantissa being an arbitrary-precision natural kept as little-endian     *)
(* limbs in base 2^15 (TLC integers are 32 bits wide).  Exponent range     *)
(* (overflow, subnormals) is not modelled: every value the analytics code  *)
(* computes from day counts lies far inside the normal range.              *)
(***************************************************************************)
EXTENDS Integers, Sequences, FiniteSets, TLC

(***************************************************************************)
(* Arbitrary-precision naturals: << l1, l2, ... >>, value = SUM li*Base^(i-1), *)
(* no leading (most significant) zero limb; zero is << >>.                 *)
(***************************************************************************)
Base == 2 ^ 15

Pow2(k) == 2 ^ k

Limb(a, i) == IF i <= Len(a) THEN a[i] ELSE 0

RECURSIVE BNorm(_)
BNorm(a) == IF a = << >> THEN a
            ELSE IF a[Len(a)] = 0 THEN BNorm(SubSeq(a, 1, Len(a) - 1))
            ELSE a

RECURSIVE BFromInt(_)
BFromInt(n) == IF n = 0 THEN << >> ELSE << n % Base >> \o BFromInt(n \div Base)

RECURSIVE BToInt(_)
BToInt(a) == IF a = << >> THEN 0 ELSE a[1] + Base * BToInt(Tail(a))

RECURSIVE BAddR(_, _, _, _)
BAddR(a, b, i, c) ==
    IF i > Len(a) /\ i > Len(b)
    THEN (IF c = 0 THEN << >> ELSE << c >>)
    ELSE LET s == Limb(a, i) + Limb(b, i) + c
         IN  << s % Base >> \o BAddR(a, b, i + 1, s \div Base)

BAdd(a, b) == BAddR(a, b, 1, 0)

\* a - b, for a >= b
RECURSIVE BSubR(_, _, _, _)
BSubR(a, b, i, c) ==
    IF i > Len(a) THEN << >>
    ELSE LET s == a[i] - Limb(b, i) - c
         IN  IF s < 0 THEN << s + Base >> \o BSubR(a, b, i + 1, 1)
             ELSE << s >> \o BSubR(a, b, i + 1, 0)

BSub(a, b) == BNorm(BSubR(a, b, 1, 0))

\* -1, 0, 1 as a < b, a = b, a > b
RECURSIVE BCmpR(_, _, _)
BCmpR(a, b, i) ==
    IF i = 0 THEN 0
    ELSE IF a[i] < b[i] THEN -1
    ELSE IF a[i] > b[i] THEN 1
    ELSE BCmpR(a, b, i - 1)

BCmp(a, b) == IF Len(a) < Len(b) THEN -1
              ELSE IF Len(a) > Len(b) THEN 1
              ELSE BCmpR(a, b, Len(a))

\* a * k for a small k (0 <= k <= Base)
RECURSIVE BMulSmallR(_, _, _, _)
BMulSmallR(a, k, i, c) ==
    IF i > Len(a) THEN (IF c = 0 THEN << >> ELSE << c >>)
    ELSE LET s == a[i] * k + c
         IN  << s % Base >> \o BMulSmallR(a, k, i + 1, s \div Base)

BMulSmall(a, k) == IF k = 0 THEN << >> ELSE BMulSmallR(a, k, 1, 0)

Zeros(n) == [i \in 1..n |-> 0]

BShiftLimbs(a, n) == IF a = << >> THEN a ELSE Zeros(n) \o a

RECURSIVE BMulR(_, _, _)
BMulR(a, b, i) ==
    IF i > Len(b) THEN << >>
    ELSE BAdd(BShiftLimbs(BMulSmall(a, b[i]), i - 1), BMulR(a, b, i + 1))

BMul(a, b) == BMulR(a, b, 1)

\* floor(a / k) for a small k (1 <= k <= Base), most significant limb first
RECURSIVE BDivSmallR(_, _, _, _)
BDivSmallR(a, k, i, r) ==
    IF i = 0 THEN << >>
    ELSE LET t == r * Base + a[i]
         IN  BDivSmallR(a, k, i - 1, t % k) \o << t \div k >>

BDivSmall(a, k) == BNorm(BDivSmallR(a, k, Len(a), 0))

RECURSIVE BModSmallR(_, _, _, _)
BModSmallR(a, k, i, r) ==
    IF i = 0 THEN r ELSE BModSmallR(a, k, i - 1, (r * Base + a[i]) % k)

BModSmall(a, k) == BModSmallR(a, k, Len(a), 0)

\* a * 2^s
BShl(a, s) == BShiftLimbs(BMulSmall(a, Pow2(s % 15)), s \div 15)

\* floor(a / 2^s)
BShr(a, s) ==
    LET d == s \div 15
    IN  IF d >= Len(a) THEN << >>
        ELSE BDivSmall(SubSeq(a, d + 1, Len(a)), Pow2(s % 15))

\* a mod 2^s = 0
BLowZero(a, s) ==
    LET d == s \div 15
    IN  /\ \A i \in 1..d : Limb(a, i) = 0
        /\ Limb(a, d + 1) % Pow2(s % 15) = 0

BOdd(a) == Limb(a, 1) % 2 = 1

RECURSIVE IntBitLen(_)
IntBitLen(n) == IF n = 0 THEN 0 ELSE 1 + IntBitLen(n \div 2)

BitLen(a) == IF a = << >> THEN 0
             ELSE 15 * (Len(a) - 1) + IntBitLen(a[Len(a)])

BOne == << 1 >>

(***************************************************************************)
(* floor(a * 2^k / b) and whether the division is exact, for a, b of the   *)
(* same bit length: restoring division, one quotient bit per step, in      *)
(* rounds of eight steps.                                                  *)
(***************************************************************************)
DivStep(st, b) ==
    LET r2 == BMulSmall(st.r, 2)
    IN  IF BCmp(r2, b) >= 0
        THEN [r |-> BSub(r2, b), q |-> BAdd(BMulSmall(st.q, 2), BOne)]
        ELSE [r |-> r2, q |-> BMulSmall(st.q, 2)]

\* j steps, each forced before the next
RECURSIVE DivSteps(_, _, _)
DivSteps(st, b, j) ==
    IF j = 0 THEN st
    ELSE LET st2 == DivStep(st, b)
         IN  IF Len(st2.q) >= 0 THEN DivSteps(st2, b, j - 1) ELSE st

RECURSIVE BDivBits(_, _, _)
BDivBits(st, b, k) ==
    IF k = 0 THEN [q |-> st.q, exact |-> (st.r = << >>)]
    ELSE LET j   == IF k >= 8 THEN 8 ELSE k
             st2 == DivSteps(st, b, j)
         IN  IF Len(st2.q) >= 0 THEN BDivBits(st2, b, k - j)
             ELSE [q |-> << >>, exact |-> FALSE]

BDivScaled(a, b, k) ==
    IF BCmp(a, b) >= 0 THEN BDivBits([r |-> BSub(a, b), q |-> BOne], b, k)
    ELSE BDivBits([r |-> a, q |-> << >>], b, k)

\* floor(sqrt(n)), one result bit per step from bit b down
SqrtStep(st, n) ==
    LET c == BAdd(st.r, BShl(BOne, st.b))
    IN  IF BCmp(BMul(c, c), n) <= 0 THEN [r |-> c, b |-> st.b - 1]
        ELSE [r |-> st.r, b |-> st.b - 1]

RECURSIVE SqrtSteps(_, _, _)
SqrtSteps(st, n, j) ==
    IF j = 0 \/ st.b < 0 THEN st
    ELSE LET st2 == SqrtStep(st, n)
         IN  IF st2.b >= -1 THEN SqrtSteps(st2, n, j - 1) ELSE st

RECURSIVE BSqrtBits(_, _)
BSqrtBits(st, n) ==
    IF st.b < 0 THEN st.r
    ELSE LET st2 == SqrtSteps(st, n, 8)
         IN  IF st2.b >= -1 THEN BSqrtBits(st2, n) ELSE << >>

BSqrt(n) == BSqrtBits([r |-> << >>, b |-> (BitLen(n) + 1) \div 2], n)

(***************************************************************************)
(* Calls.  Call(f, a) is the call of the function named f on the argument  *)
(* tuple a, the arguments being evaluated before the call as Python does.  *)
(* Its definition, further down, goes through Apply, the table of the      *)
(* functions of the program and of the float operations they use.  The     *)
(* float operations are written FAdd(x, y), ... below.                     *)
(***************************************************************************)
RECURSIVE Call(_, _)

FromInt(n) == Call("float_from_int", << n >>)
FCmp(x, y) == Call("float_cmp", << x, y >>)
FAdd(x, y) == Call("float_add", << x, y >>)
FMul(x, y) == Call("float_mul", << x, y >>)
FDiv(x, y) == Call("float_truediv", << x, y >>)
FSqrt(x) == Call("float_sqrt", << x >>)
FSqrtFrac(p, q) == Call("float_sqrt_frac", << p, q >>)
FExp(v) == Call("math_exp", << v >>)
FRoundDigits(x, nd) == Call("float_round", << x, nd >>)
FmtDigits(x, nd) == Call("float_format", << x, nd >>)
FTrunc(x) == Call("float_trunc", << x >>)

(***************************************************************************)
(* binary64 values: [s |-> 0 | 1, m |-> natural, e |-> exponent], value    *)
(* (-1)^s * m * 2^e with m < 2^53.  Kept canonical (m odd, or zero with    *)
(* e = 0 and s = 0) so that equal values are equal records.                *)
(***************************************************************************)
FZero == [s |-> 0, m |-> << >>, e |-> 0]

RECURSIVE IntTrailZ(_)
IntTrailZ(n) == IF n % 2 = 1 THEN 0 ELSE 1 + IntTrailZ(n \div 2)

RECURSIVE LowZeroLimbs(_, _)
LowZeroLimbs(a, i) == IF a[i] # 0 THEN i - 1 ELSE LowZeroLimbs(a, i + 1)

\* the value (-1)^s * n * 2^e for n < 2^53, in canonical form
FMake(s, n, e) ==
    IF n = << >> THEN FZero
    ELSE LET zl == LowZeroLimbs(n, 1)
             n1 == SubSeq(n, zl + 1, Len(n))
             zb == IntTrailZ(n1[1])
         IN  [s |-> s, m |-> BDivSmall(n1, Pow2(zb)), e |-> e + 15 * zl + zb]

\* (-1)^s * n * 2^e rounded to 53 significant bits, ties to even
FRound(s, n, e) ==
    LET L == BitLen(n)
    IN  IF L <= 53 THEN FMake(s, n, e)
        ELSE LET sh    == L - 53
                 q     == BShr(n, sh)
                 guard == BOdd(BShr(n, sh - 1))
                 rest  == ~BLowZero(n, sh - 1)
                 up    == guard /\ (rest \/ BOdd(q))
             IN  FMake(s, IF up THEN BAdd(q, BOne) ELSE q, e + sh)

\* the same for a truncated n (at least 55 bits) whose dropped tail is nonzero
FRoundSticky(s, n, e, inexact) ==
    IF inexact THEN FRound(s, BAdd(BMulSmall(n, 2), BOne), e - 1)
    ELSE FRound(s, n, e)

IntAbs(n) == IF n < 0 THEN -n ELSE n

\* float(n) for an int n (exact below 2^31)
float_from_int(n) == FMake(IF n < 0 THEN 1 ELSE 0, BFromInt(IntAbs(n)), 0)

FIsZero(x) == x.m = << >>

FNeg(x) == IF FIsZero(x) THEN x ELSE [x EXCEPT !.s = 1 - x.s]

\* -1, 0, 1 as |x| < |y|, |x| = |y|, |x| > |y|
FCmpMag(x, y) ==
    IF FIsZero(x) THEN (IF FIsZero(y) THEN 0 ELSE -1)
    ELSE IF FIsZero(y) THEN 1
    ELSE LET tx == BitLen(x.m) + x.e
             ty == BitLen(y.m) + y.e
         IN  IF tx < ty THEN -1
             ELSE IF tx > ty THEN 1
             ELSE LET emin == IF x.e < y.e THEN x.e ELSE y.e
                  IN  BCmp(BShl(x.m, x.e - emin), BShl(y.m, y.e - emin))

\* -1, 0, 1 as x < y, x = y, x > y
float_cmp(x, y) ==
    IF FIsZero(x) /\ FIsZero(y) THEN 0
    ELSE IF FIsZero(x) THEN (IF y.s = 1 THEN 1 ELSE -1)
    ELSE IF FIsZero(y) THEN (IF x.s = 1 THEN -1 ELSE 1)
    ELSE IF x.s # y.s THEN (IF x.s = 1 THEN -1 ELSE 1)
    ELSE IF x.s = 0 THEN FCmpMag(x, y) ELSE -FCmpMag(x, y)

FLt(x, y) == FCmp(x, y) < 0
FLe(x, y) == FCmp(x, y) <= 0
FGt(x, y) == FCmp(x, y) > 0
FGe(x, y) == FCmp(x, y) >= 0

\* x + y
float_add(x, y) ==
    IF FIsZero(x) THEN y
    ELSE IF FIsZero(y) THEN x
    ELSE LET emin == IF x.e < y.e THEN x.e ELSE y.e
             X    == BShl(x.m, x.e - emin)
             Y    == BShl(y.m, y.e - emin)
             c    == BCmp(X, Y)
         IN  IF x.s = y.s THEN FRound(x.s, BAdd(X, Y), emin)
             ELSE IF c = 0 THEN FZero
             ELSE IF c > 0 THEN FRound(x.s, BSub(X, Y), emin)
             ELSE FRound(y.s, BSub(Y, X), emin)

\* x - y
FSub(x, y) == FAdd(x, FNeg(y))

\* x * y
float_mul(x, y) ==
    IF FIsZero(x) \/ FIsZero(y) THEN FZero
    ELSE FRound((x.s + y.s) % 2, BMul(x.m, y.m), x.e + y.e)

\* (-1)^s * (N / D) * 2^e rounded, for naturals N and D > 0
FRatio(s, N, e, D) ==
    IF N = << >> THEN FZero
    ELSE LET la == BitLen(N)
             lb == BitLen(D)
             A  == IF la < lb THEN BShl(N, lb - la) ELSE N
             ea == IF la < lb THEN e - (lb - la) ELSE e
             B  == IF la > lb THEN BShl(D, la - lb) ELSE D
             eb == IF la > lb THEN -(la - lb) ELSE 0
             d  == BDivScaled(A, B, 56)
         IN  FRoundSticky(s, d.q, ea - eb - 56, ~d.exact)

\* x / y for y # 0 (the caller answers for ZeroDivisionError)
float_truediv(x, y) == FRatio((x.s + y.s) % 2, x.m, x.e - y.e, y.m)

\* x ** 0.5 for x >= 0
float_sqrt(x) ==
    IF FIsZero(x) THEN FZero
    ELSE LET L  == BitLen(x.m)
             k0 == IF L < 110 THEN 110 - L ELSE 0
             k  == IF (x.e - k0) % 2 = 0 THEN k0 ELSE k0 + 1
             n  == BShl(x.m, k)
             r  == BSqrt(n)
         IN  FRoundSticky(0, r, (x.e - k) \div 2, BMul(r, r) # n)

\* int(x): truncation toward zero
float_trunc(x) ==
    IF FIsZero(x) THEN 0
    ELSE LET a == IF x.e >= 0 THEN BToInt(BShl(x.m, x.e)) ELSE BToInt(BShr(x.m, -x.e))
         IN  IF x.s = 1 THEN -a ELSE a

\* the literal p/q written in decimal in the source (0.1, 0.66, 1e-6, ...)
FLit(p, q) == FDiv(FromInt(p), FromInt(q))

\* |x| * 10^nd rounded to an integer, ties to even, on the exact binary value
DecRound(x, nd) ==
    LET n     == BMul(x.m, BFromInt(10 ^ nd))
        sh    == -x.e
        q     == BShr(n, sh)
        guard == BOdd(BShr(n, sh - 1))
        rest  == ~BLowZero(n, sh - 1)
    IN  IF x.e >= 0 THEN BShl(n, x.e)
        ELSE IF guard /\ (rest \/ BOdd(q)) THEN BAdd(q, BOne) ELSE q

\* round(x, nd): the nearest multiple of 10^-nd, converted back to the
\* nearest binary64
float_round(x, nd) ==
    IF FIsZero(x) THEN FZero
    ELSE FDiv(FMake(x.s, DecRound(x, nd), 0), FromInt(10 ^ nd))

\* format(x, ".<nd>f"): the digits printed, as the integer x * 10^nd
float_format(x, nd) ==
    IF FIsZero(x) THEN 0
    ELSE IF x.s = 1 THEN -BToInt(DecRound(x, nd)) ELSE BToInt(DecRound(x, nd))

(***************************************************************************)
(* Python str: a sequence of code points.  Comparison is lexicographic.    *)
(***************************************************************************)
RECURSIVE StrLessR(_, _, _)
StrLessR(a, b, i) ==
    IF i > Len(b) THEN FALSE
    ELSE IF i > Len(a) THEN TRUE
    ELSE IF a[i] < b[i] THEN TRUE
    ELSE IF a[i] > b[i] THEN FALSE
    ELSE StrLessR(a, b, i + 1)

StrLess(a, b) == StrLessR(a, b, 1)

(***************************************************************************)
(* datetime.date: a proleptic Gregorian ordinal (date.toordinal()), so     *)
(* that date + timedelta(days = i) is ordinal + i.  isoformat() renders    *)
(* the ordinal as the ten characters YYYY-MM-DD, fromisoformat() parses    *)
(* them back.                                                              *)
(***************************************************************************)
IsLeap(y) == (y % 4 = 0 /\ y % 100 # 0) \/ y % 400 = 0

DaysInMonth(y, m) ==
    IF m = 2 THEN (IF IsLeap(y) THEN 29 ELSE 28)
    ELSE IF m \in {4, 6, 9, 11} THEN 30 ELSE 31

DaysBeforeYear(y) ==
    LET p == y - 1 IN p * 365 + p \div 4 - p \div 100 + p \div 400

RECURSIVE DaysBeforeMonth(_, _)
DaysBeforeMonth(y, m) ==
    IF m = 1 THEN 0 ELSE DaysBeforeMonth(y, m - 1) + DaysInMonth(y, m - 1)

ymd2ord(y, m, d) == DaysBeforeYear(y) + DaysBeforeMonth(y, m) + d

RECURSIVE FindYear(_, _)
FindYear(n, y) == IF DaysBeforeYear(y + 1) < n THEN FindYear(n, y + 1) ELSE y

RECURSIVE FindMonth(_, _, _)
FindMonth(y, r, m) ==
    IF DaysBeforeMonth(y, m) + DaysInMonth(y, m) < r THEN FindMonth(y, r, m + 1) ELSE m

ord2ymd(n) ==
    LET y == FindYear(n, (n - 1) \div 366 + 1)
        r == n - DaysBeforeYear(y)
        m == FindMonth(y, r, 1)
    IN  [year |-> y, month |-> m, day |-> r - DaysBeforeMonth(y, m)]

Digit(k) == 48 + k

\* date.isoformat()
isoformat(n) ==
    LET t == ord2ymd(n)
    IN  << Digit(t.year \div 1000), Digit((t.year \div 100) % 10),
           Digit((t.year \div 10) % 10), Digit(t.year % 10), 45,
           Digit(t.month \div 10), Digit(t.month % 10), 45,
           Digit(t.day \div 10), Digit(t.day % 10) >>

\* datetime.fromisoformat(s).date() for a well-formed YYYY-MM-DD
fromisoformat(s) ==
    ymd2ord((s[1] - 48) * 1000 + (s[2] - 48) * 100 + (s[3] - 48) * 10 + (s[4] - 48),
            (s[6] - 48) * 10 + (s[7] - 48),
            (s[9] - 48) * 10 + (s[10] - 48))

\* date.weekday(): 0 = Monday ... 6 = Sunday (ordinal 1 is a Monday)
weekday(n) == (n + 6) % 7

(***************************************************************************)
(* An article's "dt" is an aware datetime: local calendar day (ordinal),   *)
(* local hour and UTC offset in hours; NoDt stands for a missing or        *)
(* non-datetime value, on which a["dt"].astimezone raises.                 *)
(***************************************************************************)
NoDt == [kind |-> "none"]

Dt(day, hour, off) == [kind |-> "dt", day |-> day, hour |-> hour, off |-> off]

\* a["dt"].astimezone(timezone.utc).date()
UtcDate(dt) == dt.day + ((dt.hour - dt.off + 24) \div 24) - 1

(***************************************************************************)
(* dict with str keys, in insertion order: a sequence of [k, v] entries.   *)
(***************************************************************************)
DictHas(b, k) == \E i \in 1..Len(b) : b[i].k = k

DictInc(b, k) == [i \in 1..Len(b) |-> IF b[i].k = k THEN [b[i] EXCEPT !.v = @ + 1] ELSE b[i]]

DictGet(b, k) == b[CHOOSE i \in 1..Len(b) : b[i].k = k].v

\* sorted(): stable insertion sort of strings
RECURSIVE InsertStr(_, _)
InsertStr(s, x) ==
    IF s = << >> THEN << x >>
    ELSE IF StrLess(x, s[Len(s)]) THEN Append(InsertStr(SubSeq(s, 1, Len(s) - 1), x), s[Len(s)])
    ELSE Append(s, x)

\* the elements from s[i] on are inserted eight at a time
RECURSIVE SortStrSteps(_, _, _, _)
SortStrSteps(acc, s, i, k) ==
    IF k = 0 THEN acc ELSE SortStrSteps(InsertStr(acc, s[i]), s, i + 1, k - 1)

RECURSIVE SortStrFrom(_, _, _)
SortStrFrom(acc, s, i) ==
    IF i > Len(s) THEN acc
    ELSE LET k    == IF Len(s) - i + 1 < 8 THEN Len(s) - i + 1 ELSE 8
             acc2 == SortStrSteps(acc, s, i, k)
         IN  IF Len(acc2) >= 0 THEN SortStrFrom(acc2, s, i + k) ELSE acc2

SortedStr(s) == SortStrFrom(<< >>, s, 1)

\* sorted(series, key = lambda p: p["date"]), stable
RECURSIVE InsertPoint(_, _)
InsertPoint(s, p) ==
    IF s = << >> THEN << p >>
    ELSE IF StrLess(p.date, s[Len(s)].date)
         THEN Append(InsertPoint(SubSeq(s, 1, Len(s) - 1), p), s[Len(s)])
    ELSE Append(s, p)

RECURSIVE SortPointSteps(_, _, _, _)
SortPointSteps(acc, s, i, k) ==
    IF k = 0 THEN acc ELSE SortPointSteps(InsertPoint(acc, s[i]), s, i + 1, k - 1)

RECURSIVE SortPointFrom(_, _, _)
SortPointFrom(acc, s, i) ==
    IF i > Len(s) THEN acc
    ELSE LET k    == IF Len(s) - i + 1 < 8 THEN Len(s) - i + 1 ELSE 8
             acc2 == SortPointSteps(acc, s, i, k)
         IN  IF Len(acc2) >= 0 THEN SortPointFrom(acc2, s, i + k) ELSE acc2

SortedByDate(s) == SortPointFrom(<< >>, s, 1)

(***************************************************************************)
(* AnalyticsService.build_series                                           *)
(***************************************************************************)
\* the window argument: an int, or a value of a type int() rejects (None, a list)
IntArg(n) == [kind |-> "int", n |-> n]
BadArg == [kind |-> "bad"]
\* the float num / den (den > 0), the float nan, a str
FloatArg(num, den) == [kind |-> "float", num |-> num, den |-> den]
NanArg == [kind |-> "nan"]
StrArg(str) == [kind |-> "str", str |-> str]

\* str.isspace() of a code point below 256
IsSpace(c) == c \in {9, 10, 11, 12, 13, 28, 29, 30, 31, 32, 133, 160}

RECURSIVE LStrip(_)
LStrip(str) == IF str # << >> /\ IsSpace(str[1]) THEN LStrip(Tail(str)) ELSE str

RECURSIVE RStrip(_)
RStrip(str) ==
    IF str # << >> /\ IsSpace(str[Len(str)]) THEN RStrip(SubSeq(str, 1, Len(str) - 1)) ELSE str

\* str.strip()
Strip(str) == RStrip(LStrip(str))

IsDigit(c) == c >= 48 /\ c <= 57

\* the text of a str argument of int(), without surrounding whitespace and sign
Numeral(str) ==
    LET t == Strip(str)
    IN  IF t # << >> /\ t[1] \in {43, 45} THEN Tail(t) ELSE t

\* int() accepts decimal digits, with single underscores between digits
IsNumeral(body) ==
    /\ body # << >>
    /\ \A i \in 1..Len(body) :
          \/ IsDigit(body[i])
          \/ /\ body[i] = 95
             /\ i > 1 /\ i < Len(body)
             /\ IsDigit(body[i - 1]) /\ IsDigit(body[i + 1])

RECURSIVE NumeralValue(_, _)
NumeralValue(body, acc) ==
    IF body = << >> THEN acc
    ELSE IF body[1] = 95 THEN NumeralValue(Tail(body), acc)
    ELSE NumeralValue(Tail(body), 10 * acc + (body[1] - 48))

\* int(x): an int as it is, a float truncated toward zero, a str parsed;
\* nan, malformed text and values of other types raise
int(x) ==
    IF x.kind = "int" THEN [exc |-> "none", v |-> x.n]
    ELSE IF x.kind = "float"
    THEN [exc |-> "none", v |-> IF x.num < 0 THEN -((-x.num) \div x.den) ELSE x.num \div x.den]
    ELSE IF x.kind = "nan" THEN [exc |-> "ValueError"]
    ELSE IF x.kind = "str"
    THEN (IF IsNumeral(Numeral(x.str))
          THEN [exc |-> "none",
                v |-> IF Strip(x.str)[1] = 45 THEN -NumeralValue(Numeral(x.str), 0)
                      ELSE NumeralValue(Numeral(x.str), 0)]
          ELSE [exc |-> "ValueError"])
    ELSE [exc |-> "TypeError"]

\* a variant that leaves out the lower clamp
CoerceDiasNoFloor(dias) ==
    LET d == IF int(dias).exc = "none" THEN int(dias).v ELSE 7
    IN  IF d < 180 THEN d ELSE 180

\* try: dias = int(dias) except Exception: dias = 7 ; then the clamp
CoerceDias(dias) ==
    LET d == IF int(dias).exc = "none" THEN int(dias).v ELSE 7
        lo == IF d < 180 THEN d ELSE 180
    IN  IF lo > 1 THEN lo ELSE 1

\* a variant whose window ends the day before today: range(-dias, 0)
InitBucketsShifted(t, dias) ==
    [j \in 1..dias |-> [k |-> isoformat(t - dias + (j - 1)), v |-> 0]]

\* buckets = {(today + timedelta(days=i)).isoformat(): 0 for i in range(-(dias-1), 1)}
InitBuckets(today, dias) ==
    [j \in 1..dias |-> [k |-> isoformat(today - (dias - 1) + (j - 1)), v |-> 0]]

\* a variant that buckets an article by its local calendar day: a["dt"].date()
RECURSIVE FillBucketsLocal(_, _, _)
FillBucketsLocal(buckets, articles, i) ==
    IF i > Len(articles) THEN buckets
    ELSE LET a == articles[i]
         IN  IF a.dt.kind = "none" THEN FillBucketsLocal(buckets, articles, i + 1)
             ELSE LET d == isoformat(a.dt.day)
                  IN  IF DictHas(buckets, d)
                      THEN FillBucketsLocal(DictInc(buckets, d), articles, i + 1)
                      ELSE FillBucketsLocal(buckets, articles, i + 1)

\* a variant whose loop ends at the first article whose dt raises
RECURSIVE FillBucketsAbort(_, _, _)
FillBucketsAbort(buckets, articles, i) ==
    IF i > Len(articles) THEN buckets
    ELSE LET a == articles[i]
         IN  IF a.dt.kind = "none" THEN buckets
             ELSE LET d == isoformat(UtcDate(a.dt))
                  IN  IF DictHas(buckets, d)
                      THEN FillBucketsAbort(DictInc(buckets, d), articles, i + 1)
                      ELSE FillBucketsAbort(buckets, articles, i + 1)

\* the loop over the articles; an article whose dt raises is skipped
RECURSIVE FillBuckets(_, _, _)
FillBuckets(buckets, articles, i) ==
    IF i > Len(articles) THEN buckets
    ELSE LET a == articles[i]
         IN  IF a.dt.kind = "none" THEN FillBuckets(buckets, articles, i + 1)
             ELSE LET d == isoformat(UtcDate(a.dt))
                  IN  IF DictHas(buckets, d)
                      THEN FillBuckets(DictInc(buckets, d), articles, i + 1)
                      ELSE FillBuckets(buckets, articles, i + 1)

build_series(articles, dias, today) ==
    LET n       == CoerceDias(dias)
        buckets == FillBuckets(InitBuckets(today, n), articles, 1)
        keys    == SortedStr([j \in 1..Len(buckets) |-> buckets[j].k])
    IN  [j \in 1..Len(keys) |-> [date |-> keys[j], count |-> DictGet(buckets, keys[j])]]

(***************************************************************************)
(* Library numerics the analytics code calls.                              *)
(***************************************************************************)
\* sum(<ints>): exact, so taken by halves to keep the recursion shallow
RECURSIVE SumRange(_, _, _)
SumRange(s, lo, hi) ==
    IF lo > hi THEN 0
    ELSE IF lo = hi THEN s[lo]
    ELSE LET mid == (lo + hi) \div 2 IN SumRange(s, lo, mid) + SumRange(s, mid + 1, hi)

SumInts(s) == SumRange(s, 1, Len(s))

SumSq(s) == SumRange([i \in 1..Len(s) |-> s[i] * s[i]], 1, Len(s))

\* sum(<floats>): left to right from the int 0
RECURSIVE FSum(_)
FSum(s) == IF s = << >> THEN FZero ELSE FAdd(FSum(SubSeq(s, 1, Len(s) - 1)), s[Len(s)])

IntMax(a, b) == IF a > b THEN a ELSE b
FMax(a, b) == IF FGt(b, a) THEN b ELSE a
FMin(a, b) == IF FLt(b, a) THEN b ELSE a

\* sqrt(p / q) correctly rounded, for ints p >= 0 and 0 < q <= 2^15: the
\* root of an exact fraction, as statistics.pstdev and stdev take it
float_sqrt_frac(p, q) ==
    IF p = 0 THEN FZero
    ELSE LET num == BShl(BFromInt(p), 128)
             n   == BDivSmall(num, q)
             r   == BSqrt(n)
         IN  FRoundSticky(0, r, -64, BModSmall(num, q) # 0 \/ BMul(r, r) # n)

\* statistics.pstdev(vals) for a non-empty list of ints
pstdev(vals) ==
    LET n == Len(vals)
    IN  FSqrtFrac(n * SumSq(vals) - SumInts(vals) * SumInts(vals), n * n)

\* statistics.stdev(vals) (sample standard deviation), at least two ints
stdev(vals) ==
    LET n == Len(vals)
    IN  FSqrtFrac(n * SumSq(vals) - SumInts(vals) * SumInts(vals), n * (n - 1))

\* math.exp(v): e^v rounded to binary64, from the Taylor series in fixed
\* point with 80 fractional bits
ExpStep(st, V) ==
    [T    |-> BDivSmall(BShr(BMul(st.T, V), 80), st.k + 1),
     k    |-> st.k + 1,
     even |-> IF st.k % 2 = 0 THEN BAdd(st.even, st.T) ELSE st.even,
     odd  |-> IF st.k % 2 = 1 THEN BAdd(st.odd, st.T) ELSE st.odd]

RECURSIVE ExpSteps(_, _, _)
ExpSteps(st, V, j) ==
    IF j = 0 \/ st.T = << >> THEN st
    ELSE LET st2 == ExpStep(st, V)
         IN  IF st2.k > 0 THEN ExpSteps(st2, V, j - 1) ELSE st

RECURSIVE ExpSeries(_, _)
ExpSeries(st, V) ==
    IF st.T = << >> THEN st
    ELSE LET st2 == ExpSteps(st, V, 8)
         IN  IF st2.k > 0 THEN ExpSeries(st2, V) ELSE st

math_exp(v) ==
    LET V == IF FIsZero(v) THEN << >>
             ELSE IF v.e + 80 >= 0 THEN BShl(v.m, v.e + 80) ELSE BShr(v.m, -(v.e + 80))
        t == ExpSeries([T |-> BShl(BOne, 80), k |-> 0, even |-> << >>, odd |-> << >>], V)
        S == IF v.s = 1 THEN BSub(t.even, t.odd) ELSE BAdd(t.even, t.odd)
    IN  FRoundSticky(0, S, -80, TRUE)

\* math.exp raises OverflowError above ln(DBL_MAX) = 709.78...
ExpOverflows(v) == FGt(v, FLit(70978, 100))

FOne == FromInt(1)
FHalf == FLit(1, 2)

(***************************************************************************)
(* A raised exception is a record whose exc field names it; a normal       *)
(* result carries exc = "none".                                            *)
(***************************************************************************)
Raise(name) == [exc |-> name]

Counts(series) == [i \in 1..Len(series) |-> series[i].count]

(***************************************************************************)
(* AnalyticsService._basic_analyze: the draft summary and the count list.  *)
(* The summary sentence is kept as the fields its f-string renders.        *)
(***************************************************************************)
_basic_analyze(series) ==
    LET vals0     == Counts(series)
        vals      == IF vals0 = << >> THEN << 0 >> ELSE vals0
        last      == vals[Len(vals)]
        prev0     == SubSeq(vals, 1, Len(vals) - 1)
        prev      == IF prev0 = << >> THEN << 0 >> ELSE prev0
        mean_prev == FDiv(FromInt(SumInts(prev)), FromInt(IntMax(1, Len(prev))))
        change    == last - prev[Len(prev)]
        momentum  == change - (IF Len(prev) > 1 THEN prev[Len(prev)] - prev[Len(prev) - 1] ELSE 0)
        label     == IF FIsZero(mean_prev) /\ last = 0 THEN "sem variação (baixa cobertura)"
                     ELSE IF FGt(FromInt(last), FMul(mean_prev, FLit(125, 100))) THEN "em alta"
                     ELSE IF FLt(FromInt(last), FMul(mean_prev, FLit(75, 100))) THEN "em baixa"
                     ELSE "estável"
    IN  [resumo |-> [label |-> label, last |-> last, mean_prev_1f |-> FmtDigits(mean_prev, 1),
                     change |-> change, momentum |-> momentum],
         vals   |-> vals]

(***************************************************************************)
(* AnalyticsService._trend_confidence                                      *)
(***************************************************************************)
TrendDefault ==
    [exc |-> "none", slope |-> FZero, pct |-> FZero, last_delta |-> 0,
     score |-> FHalf, conf_label |-> "Média"]

F0_33 == FLit(33, 100)
F0_66 == FLit(66, 100)
F1e_6 == FLit(1, 1000000)

\* the least-squares slope of vals over x = 0 .. n-1 (lines 807-812)
TrendSlope(vals) ==
    LET n      == Len(vals)
        mean_x == FDiv(FromInt((n * (n - 1)) \div 2), FromInt(n))
        mean_y == FDiv(FromInt(SumInts(vals)), FromInt(n))
        dx     == [i \in 1..n |-> FSub(FromInt(i - 1), mean_x)]
        num    == FSum([i \in 1..n |-> FMul(dx[i], FSub(FromInt(vals[i]), mean_y))])
        den0   == FSum([i \in 1..n |-> FMul(dx[i], dx[i])])
        den    == IF FIsZero(den0) THEN FOne ELSE den0
    IN  FDiv(num, den)

\* a variant that takes the last value against the first one
TrendPctFirst(vals) ==
    LET n         == Len(vals)
        last      == vals[n]
        prev_mean == FromInt(vals[1])
    IN  IF FGt(prev_mean, FZero)
        THEN FMul(FDiv(FSub(FromInt(last), prev_mean), prev_mean), FromInt(100))
        ELSE IF last = 0 THEN FZero ELSE FromInt(100)

\* a variant that reports 100 percent whenever the earlier mean is 0
TrendPct100(vals) ==
    LET n         == Len(vals)
        last      == vals[n]
        prev      == SubSeq(vals, 1, n - 1)
        prev_mean == FDiv(FromInt(SumInts(prev)), FromInt(IntMax(1, Len(prev))))
    IN  IF FGt(prev_mean, FZero)
        THEN FMul(FDiv(FSub(FromInt(last), prev_mean), prev_mean), FromInt(100))
        ELSE FromInt(100)

\* the last value against the mean of the earlier ones, in percent (815-823)
TrendPct(vals) ==
    LET n         == Len(vals)
        last      == vals[n]
        prev      == SubSeq(vals, 1, n - 1)
        prev_mean == FDiv(FromInt(SumInts(prev)), FromInt(IntMax(1, Len(prev))))
    IN  IF FGt(prev_mean, FZero)
        THEN FMul(FDiv(FSub(FromInt(last), prev_mean), prev_mean), FromInt(100))
        ELSE IF last = 0 THEN FZero ELSE FromInt(100)

\* a variant with the upper cut at 0.65
ConfLabel65(score) ==
    IF FGt(score, FLit(65, 100)) THEN "Alta"
    ELSE IF FLt(score, F0_33) THEN "Baixa"
    ELSE "Média"

\* the labels of the score (830-835)
ConfLabel(score) ==
    IF FGt(score, F0_66) THEN "Alta"
    ELSE IF FLt(score, F0_33) THEN "Baixa"
    ELSE "Média"

\* a variant that divides by the sample deviation, statistics.stdev
TrendScoreSample(slope, vals) ==
    LET sd    == Call("stdev", << vals >>)
        arg   == FDiv(FNeg(slope), FAdd(sd, F1e_6))
        score == FDiv(FOne, FAdd(FOne, FExp(arg)))
    IN  IF ExpOverflows(arg) THEN [score |-> FHalf, conf_label |-> "Média"]
        ELSE [score |-> score, conf_label |-> ConfLabel(score)]

\* the try block: score and label, 0.5 and "Média" when math.exp overflows
TrendScore(slope, vals) ==
    LET sd    == Call("pstdev", << vals >>)
        arg   == FDiv(FNeg(slope), FAdd(sd, F1e_6))
        score == FDiv(FOne, FAdd(FOne, FExp(arg)))
    IN  IF ExpOverflows(arg) THEN [score |-> FHalf, conf_label |-> "Média"]
        ELSE [score |-> score, conf_label |-> ConfLabel(score)]

\* a variant that takes the last value against the first for pct and last_delta
TrendBodyFromFirst(vals) ==
    LET n     == Len(vals)
        slope == TrendSlope(vals)
        sc    == TrendScore(slope, vals)
    IN  IF n = 0 THEN Raise("ZeroDivisionError")
        ELSE IF n < 2 THEN Raise("IndexError")
        ELSE [exc |-> "none", slope |-> slope, pct |-> TrendPct(<< vals[1], vals[n] >>),
              last_delta |-> vals[n] - vals[1],
              score |-> sc.score, conf_label |-> sc.conf_label]

\* the body below the n < 2 guard
TrendBody(vals) ==
    LET n     == Len(vals)
        slope == TrendSlope(vals)
        sc    == TrendScore(slope, vals)
    IN  IF n = 0 THEN Raise("ZeroDivisionError")
        ELSE IF n < 2 THEN Raise("IndexError")
        ELSE [exc |-> "none", slope |-> slope, pct |-> TrendPct(vals),
              last_delta |-> vals[n] - vals[n - 1],
              score |-> sc.score, conf_label |-> sc.conf_label]

\* a variant without the n < 2 guard
_trend_confidence_unguarded(vals) == TrendBody(vals)

_trend_confidence(vals) == IF Len(vals) < 2 THEN TrendDefault ELSE TrendBody(vals)

(***************************************************************************)
(* The spike list of AnalyticsService.analyze                              *)
(***************************************************************************)
SpikeMu(vals) == FDiv(FromInt(SumInts(vals)), FromInt(IntMax(1, Len(vals))))

SpikeSd(vals) ==
    LET mu == SpikeMu(vals)
        sq(i) == LET d == FSub(FromInt(vals[i]), mu) IN FMul(d, d)
    IN  IF vals = << >> THEN FZero
        ELSE FSqrt(FDiv(FSum([i \in 1..Len(vals) |-> sq(i)]), FromInt(IntMax(1, Len(vals)))))

\* sd > 1e-6 and (x - mu) / sd >= 2.0
IsSpike(x, mu, sd) ==
    /\ FGt(sd, F1e_6)
    /\ FGe(FDiv(FSub(FromInt(x), mu), sd), FromInt(2))

RECURSIVE SelectSeq2(_, _, _)
SelectSeq2(s, keep, i) ==
    IF i > Len(s) THEN << >>
    ELSE IF keep[i] THEN << s[i] >> \o SelectSeq2(s, keep, i + 1)
    ELSE SelectSeq2(s, keep, i + 1)

Spikes(series, vals) ==
    LET mu == SpikeMu(vals)
        sd == SpikeSd(vals)
    IN  SelectSeq2([i \in 1..Len(vals) |-> series[i].date],
                   [i \in 1..Len(vals) |-> IsSpike(vals[i], mu, sd)], 1)

(***************************************************************************)
(* The module-level generator of the random module, shared by every        *)
(* caller in the process: a state and a step.  random.random() returns     *)
(* the value of the current state and advances it.                         *)
(***************************************************************************)
RandomStates == 4

RandomValue(st) == FDiv(FromInt(st), FromInt(RandomStates))
RandomNext(st) == (st + 1) % RandomStates

\* random.uniform(a, b) == a + (b - a) * random()
uniform(a, b, u) == FAdd(a, FMul(FSub(b, a), u))

F0_1 == FLit(1, 10)
F0_2 == FLit(2, 10)
\* a variant of the cap: 0.85
F0_85 == FLit(85, 100)
F0_8 == FLit(8, 10)

(***************************************************************************)
(* PredictionEngine._calculate_trend, _analyze_weekly_pattern and          *)
(* detect_patterns                                                         *)
(***************************************************************************)
RECURSIVE SumXY(_, _)
SumXY(y, i) == IF i > Len(y) THEN 0 ELSE (i - 1) * y[i] + SumXY(y, i + 1)

\* a variant that leaves n out of the sum form
_calculate_trend_without_n(counts) ==
    LET n      == Len(counts)
        sum_x  == (n * (n - 1)) \div 2
        sum_y  == SumInts(counts)
        sum_xy == SumXY(counts, 1)
        sum_xx == SumSq([i \in 1..n |-> i - 1])
        d      == sum_xx - sum_x * sum_x
    IN  IF n < 2 THEN [exc |-> "none", v |-> FZero]
        ELSE IF d = 0 THEN Raise("ZeroDivisionError")
        ELSE [exc |-> "none", v |-> FDiv(FromInt(sum_xy - sum_x * sum_y), FromInt(d))]

_calculate_trend(counts) ==
    LET n      == Len(counts)
        sum_x  == (n * (n - 1)) \div 2
        sum_y  == SumInts(counts)
        sum_xy == SumXY(counts, 1)
        sum_xx == SumSq([i \in 1..n |-> i - 1])
        d      == n * sum_xx - sum_x * sum_x
    IN  IF n < 2 THEN [exc |-> "none", v |-> FZero]
        ELSE IF d = 0 THEN Raise("ZeroDivisionError")
        ELSE [exc |-> "none", v |-> FDiv(FromInt(n * sum_xy - sum_x * sum_y), FromInt(d))]

\* a variant that numbers the weekdays from 1 (isoweekday)
_analyze_weekly_pattern_iso(series) ==
    LET wd(i)   == weekday(fromisoformat(series[i].date)) + 1
        days    == {wd(i) : i \in 1..Len(series)}
        idx(d)  == {i \in 1..Len(series) : wd(i) = d}
        tot(d)  == SumInts([i \in 1..Len(series) |-> IF wd(i) = d THEN series[i].count ELSE 0])
    IN  [d \in days |-> FDiv(FromInt(tot(d)), FromInt(Cardinality(idx(d))))]

\* weekday -> mean count, for the weekdays the series has a point on
_analyze_weekly_pattern(series) ==
    LET wd(i)   == weekday(fromisoformat(series[i].date))
        days    == {wd(i) : i \in 1..Len(series)}
        idx(d)  == {i \in 1..Len(series) : wd(i) = d}
        tot(d)  == SumInts([i \in 1..Len(series) |-> IF wd(i) = d THEN series[i].count ELSE 0])
    IN  [d \in days |-> FDiv(FromInt(tot(d)), FromInt(Cardinality(idx(d))))]

detect_patterns(series) ==
    LET counts == Counts(series)
        tr     == Call("_calculate_trend", << counts >>)
    IN  IF Len(series) < 7 THEN [exc |-> "none", sazonalidade |-> "None", tendencia |-> "insuficiente"]
        ELSE IF tr.exc # "none" THEN tr
        ELSE [exc |-> "none", sazonalidade |-> Call("_analyze_weekly_pattern", << series >>),
              tendencia |-> tr.v,
              volatilidade |-> IF Len(counts) > 1 THEN Call("stdev", << counts >>) ELSE FZero]

(***************************************************************************)
(* PredictionEngine.generate_future_predictions.  rs is the state of the   *)
(* shared generator at the call; the result carries the state it leaves.   *)
(***************************************************************************)
\* a variant that dates the i-th point last_date + timedelta(days = i)
RECURSIVE PredictionsFromLast(_, _, _, _, _, _)
PredictionsFromLast(last_value, avg_value, last_date, i, days_ahead, rs) ==
    IF i >= days_ahead THEN [previsoes |-> << >>, rs |-> rs]
    ELSE LET base_prediction  == FMax(FZero, FAdd(FromInt(last_value),
                                     FMul(FMul(FSub(avg_value, FromInt(last_value)), F0_1),
                                          FromInt(i + 1))))
             random_variation == FMul(uniform(FNeg(F0_2), F0_2, RandomValue(rs)), avg_value)
             final_prediction == FMax(FZero, FAdd(base_prediction, random_variation))
             point == [date |-> isoformat(last_date + i),
                       count |-> FTrunc(final_prediction),
                       is_prediction |-> TRUE]
             rest  == PredictionsFromLast(last_value, avg_value, last_date, i + 1, days_ahead,
                                          RandomNext(rs))
         IN  [previsoes |-> << point >> \o rest.previsoes, rs |-> rest.rs]

RECURSIVE Predictions(_, _, _, _, _, _)
Predictions(last_value, avg_value, last_date, i, days_ahead, rs) ==
    IF i >= days_ahead THEN [previsoes |-> << >>, rs |-> rs]
    ELSE LET base_prediction  == FMax(FZero, FAdd(FromInt(last_value),
                                     FMul(FMul(FSub(avg_value, FromInt(last_value)), F0_1),
                                          FromInt(i + 1))))
             random_variation == FMul(uniform(FNeg(F0_2), F0_2, RandomValue(rs)), avg_value)
             final_prediction == FMax(FZero, FAdd(base_prediction, random_variation))
             point == [date |-> isoformat(last_date + i + 1),
                       count |-> FTrunc(final_prediction),
                       is_prediction |-> TRUE]
             rest  == Predictions(last_value, avg_value, last_date, i + 1, days_ahead, RandomNext(rs))
         IN  [previsoes |-> << point >> \o rest.previsoes, rs |-> rest.rs]

\* a variant that asks for more than a week of points
InsufficientData8(series) == Len(series) < 8

\* if len(series) < 3
InsufficientData(series) == Len(series) < 3

generate_future_predictions(series, days_ahead, rs) ==
    IF InsufficientData(series)
    THEN [exc |-> "none", previsoes |-> << >>, confianca |-> FZero, rs |-> rs]
    ELSE LET counts     == Counts(series)
             last_value == counts[Len(counts)]
             avg_value  == FDiv(FromInt(SumInts(counts)), FromInt(Len(counts)))
             last_date  == fromisoformat(series[Len(series)].date)
             ps         == Predictions(last_value, avg_value, last_date, 0, days_ahead, rs)
             pat        == Call("detect_patterns", << series >>)
         IN  IF pat.exc # "none" THEN [exc |-> pat.exc, rs |-> ps.rs]
             ELSE [exc |-> "none", previsoes |-> ps.previsoes,
                   confianca |-> FMin(F0_8, FDiv(FromInt(Len(series)), FromInt(10))),
                   padroes_detectados |-> pat, rs |-> ps.rs]

\* one pass of the loop of generate_future_predictions: the point of index i,
\* drawn with the shared generator in state rs, and the state the draw leaves
ForecastIteration(series, i, rs) ==
    LET counts     == Counts(series)
        last_value == counts[Len(counts)]
        avg_value  == FDiv(FromInt(SumInts(counts)), FromInt(Len(counts)))
        last_date  == fromisoformat(series[Len(series)].date)
    IN  Predictions(last_value, avg_value, last_date, i, i + 1, rs)

\* the return statement of generate_future_predictions, after the loop
ForecastResult(series, previsoes) ==
    LET pat == Call("detect_patterns", << series >>)
    IN  IF pat.exc # "none" THEN [exc |-> pat.exc]
        ELSE [exc |-> "none", previsoes |-> previsoes,
              confianca |-> FMin(F0_8, FDiv(FromInt(Len(series)), FromInt(10))),
              padroes_detectados |-> pat]

(***************************************************************************)
(* statistics.mean and statistics.variance of floats: the exact rational   *)
(* value, rounded once.  The data are brought to a common exponent and     *)
(* summed as integers, positive and negative parts apart.                  *)
(***************************************************************************)
RECURSIVE MinExp(_, _)
MinExp(xs, i) ==
    IF i > Len(xs) THEN 0
    ELSE LET r == MinExp(xs, i + 1)
         IN  IF FIsZero(xs[i]) THEN r ELSE IF xs[i].e < r THEN xs[i].e ELSE r

Scaled(x, emin) == IF FIsZero(x) THEN << >> ELSE BShl(x.m, x.e - emin)

\* the sums are taken by halves of the index range lo..hi
RECURSIVE SignedSum(_, _, _, _, _)
SignedSum(xs, emin, sgn, lo, hi) ==
    IF lo > hi THEN << >>
    ELSE IF lo = hi
    THEN (IF ~FIsZero(xs[lo]) /\ xs[lo].s = sgn THEN Scaled(xs[lo], emin) ELSE << >>)
    ELSE LET mid == (lo + hi) \div 2
         IN  BAdd(SignedSum(xs, emin, sgn, lo, mid), SignedSum(xs, emin, sgn, mid + 1, hi))

RECURSIVE SquareSum(_, _, _, _)
SquareSum(xs, emin, lo, hi) ==
    IF lo > hi THEN << >>
    ELSE IF lo = hi
    THEN (LET v == Scaled(xs[lo], emin) IN BMul(v, v))
    ELSE LET mid == (lo + hi) \div 2
         IN  BAdd(SquareSum(xs, emin, lo, mid), SquareSum(xs, emin, mid + 1, hi))

\* statistics.mean(xs) for a nonempty list of floats
mean(xs) ==
    LET emin == MinExp(xs, 1)
        P    == SignedSum(xs, emin, 0, 1, Len(xs))
        N    == SignedSum(xs, emin, 1, 1, Len(xs))
        n    == BFromInt(Len(xs))
    IN  IF BCmp(P, N) >= 0 THEN FRatio(0, BSub(P, N), emin, n)
        ELSE FRatio(1, BSub(N, P), emin, n)

\* statistics.variance(xs) for at least two floats
variance(xs) ==
    LET emin == MinExp(xs, 1)
        P    == SignedSum(xs, emin, 0, 1, Len(xs))
        N    == SignedSum(xs, emin, 1, 1, Len(xs))
        S    == IF BCmp(P, N) >= 0 THEN BSub(P, N) ELSE BSub(N, P)
        n    == Len(xs)
        num  == BSub(BMulSmall(SquareSum(xs, emin, 1, Len(xs)), n), BMul(S, S))
    IN  FRatio(0, num, 2 * emin, BFromInt(n * (n - 1)))

(***************************************************************************)
(* str.lower(), str.upper(), the in operator on str and " ".join, on the   *)
(* Basic Latin and Latin-1 letters the tables and headlines are written in.*)
(***************************************************************************)
\* a variant that leaves every character as it is
LowerCodeId(c) == c

LowerCode(c) ==
    IF (c >= 65 /\ c <= 90) \/ (c >= 192 /\ c <= 222 /\ c # 215) THEN c + 32 ELSE c

UpperCode(c) ==
    IF (c >= 97 /\ c <= 122) \/ (c >= 224 /\ c <= 254 /\ c # 247) THEN c - 32 ELSE c

Lower(str) == [i \in 1..Len(str) |-> LowerCode(str[i])]
Upper(str) == [i \in 1..Len(str) |-> UpperCode(str[i])]

\* w in str
Contains(str, w) ==
    \E i \in 1..(Len(str) - Len(w) + 1) : SubSeq(str, i, i + Len(w) - 1) = w

\* any(palavra in str for palavra in palavras)
AnyIn(palavras, str) == \E j \in 1..Len(palavras) : Contains(str, palavras[j])

RECURSIVE JoinSpace(_)
JoinSpace(strs) ==
    IF strs = << >> THEN << >>
    ELSE IF Len(strs) = 1 THEN strs[1]
    ELSE strs[1] \o << 32 >> \o JoinSpace(Tail(strs))

(***************************************************************************)
(* The keyword tables of PredictionEngine, in dict order.  Every str is   *)
(* the sequence of its code points; the comment above an entry spells it. *)
(***************************************************************************)
palavras_chave ==
    <<
    \* crescimento: cresce, aumenta, expande, alta, sobe, crescimento, avanço, expansão
    [tema |-> <<99, 114, 101, 115, 99, 105, 109, 101, 110, 116, 111>>,
     palavras |-> <<<<99, 114, 101, 115, 99, 101>>,
                   <<97, 117, 109, 101, 110, 116, 97>>,
                   <<101, 120, 112, 97, 110, 100, 101>>,
                   <<97, 108, 116, 97>>,
                   <<115, 111, 98, 101>>,
                   <<99, 114, 101, 115, 99, 105, 109, 101, 110, 116, 111>>,
                   <<97, 118, 97, 110, 231, 111>>,
                   <<101, 120, 112, 97, 110, 115, 227, 111>>>>],
    \* queda: cai, diminui, baixa, queda, reduz, recua, encolhe, retração
    [tema |-> <<113, 117, 101, 100, 97>>,
     palavras |-> <<<<99, 97, 105>>,
                   <<100, 105, 109, 105, 110, 117, 105>>,
                   <<98, 97, 105, 120, 97>>,
                   <<113, 117, 101, 100, 97>>,
                   <<114, 101, 100, 117, 122>>,
                   <<114, 101, 99, 117, 97>>,
                   <<101, 110, 99, 111, 108, 104, 101>>,
                   <<114, 101, 116, 114, 97, 231, 227, 111>>>>],
    \* crise: crise, recessão, colapso, emergência, problema, dificuldade, instabilidade
    [tema |-> <<99, 114, 105, 115, 101>>,
     palavras |-> <<<<99, 114, 105, 115, 101>>,
                   <<114, 101, 99, 101, 115, 115, 227, 111>>,
                   <<99, 111, 108, 97, 112, 115, 111>>,
                   <<101, 109, 101, 114, 103, 234, 110, 99, 105, 97>>,
                   <<112, 114, 111, 98, 108, 101, 109, 97>>,
                   <<100, 105, 102, 105, 99, 117, 108, 100, 97, 100, 101>>,
                   <<105, 110, 115, 116, 97, 98, 105, 108, 105, 100, 97, 100, 101>>>>],
    \* estabilidade: estável, mantém, consolida, equilíbrio, normalidade, controle
    [tema |-> <<101, 115, 116, 97, 98, 105, 108, 105, 100, 97, 100, 101>>,
     palavras |-> <<<<101, 115, 116, 225, 118, 101, 108>>,
                   <<109, 97, 110, 116, 233, 109>>,
                   <<99, 111, 110, 115, 111, 108, 105, 100, 97>>,
                   <<101, 113, 117, 105, 108, 237, 98, 114, 105, 111>>,
                   <<110, 111, 114, 109, 97, 108, 105, 100, 97, 100, 101>>,
                   <<99, 111, 110, 116, 114, 111, 108, 101>>>>],
    \* governo: governo, presidente, ministro, prefeito, gestão, administração, executivo
    [tema |-> <<103, 111, 118, 101, 114, 110, 111>>,
     palavras |-> <<<<103, 111, 118, 101, 114, 110, 111>>,
                   <<112, 114, 101, 115, 105, 100, 101, 110, 116, 101>>,
                   <<109, 105, 110, 105, 115, 116, 114, 111>>,
                   <<112, 114, 101, 102, 101, 105, 116, 111>>,
                   <<103, 101, 115, 116, 227, 111>>,
                   <<97, 100, 109, 105, 110, 105, 115, 116, 114, 97, 231, 227, 111>>,
                   <<101, 120, 101, 99, 117, 116, 105, 118, 111>>>>],
    \* política: político, eleição, partido, votação, legislativo, congresso, senado
    [tema |-> <<112, 111, 108, 237, 116, 105, 99, 97>>,
     palavras |-> <<<<112, 111, 108, 237, 116, 105, 99, 111>>,
                   <<101, 108, 101, 105, 231, 227, 111>>,
                   <<112, 97, 114, 116, 105, 100, 111>>,
                   <<118, 111, 116, 97, 231, 227, 111>>,
                   <<108, 101, 103, 105, 115, 108, 97, 116, 105, 118, 111>>,
                   <<99, 111, 110, 103, 114, 101, 115, 115, 111>>,
                   <<115, 101, 110, 97, 100, 111>>>>],
    \* medidas: medida, decreto, lei, projeto, programa, iniciativa, política pública
    [tema |-> <<109, 101, 100, 105, 100, 97, 115>>,
     palavras |-> <<<<109, 101, 100, 105, 100, 97>>,
                   <<100, 101, 99, 114, 101, 116, 111>>,
                   <<108, 101, 105>>,
                   <<112, 114, 111, 106, 101, 116, 111>>,
                   <<112, 114, 111, 103, 114, 97, 109, 97>>,
                   <<105, 110, 105, 99, 105, 97, 116, 105, 118, 97>>,
                   <<112, 111, 108, 237, 116, 105, 99, 97, 32, 112, 250, 98, 108, 105, 99, 97>>>>],
    \* violência: violência, crime, assalto, homicídio, tiroteio, assassinato, latrocínio
    [tema |-> <<118, 105, 111, 108, 234, 110, 99, 105, 97>>,
     palavras |-> <<<<118, 105, 111, 108, 234, 110, 99, 105, 97>>,
                   <<99, 114, 105, 109, 101>>,
                   <<97, 115, 115, 97, 108, 116, 111>>,
                   <<104, 111, 109, 105, 99, 237, 100, 105, 111>>,
                   <<116, 105, 114, 111, 116, 101, 105, 111>>,
                   <<97, 115, 115, 97, 115, 115, 105, 110, 97, 116, 111>>,
                   <<108, 97, 116, 114, 111, 99, 237, 110, 105, 111>>>>],
    \* segurança: segurança, polícia, investigação, prisão, operacao, patrulha, combate
    [tema |-> <<115, 101, 103, 117, 114, 97, 110, 231, 97>>,
     palavras |-> <<<<115, 101, 103, 117, 114, 97, 110, 231, 97>>,
                   <<112, 111, 108, 237, 99, 105, 97>>,
                   <<105, 110, 118, 101, 115, 116, 105, 103, 97, 231, 227, 111>>,
                   <<112, 114, 105, 115, 227, 111>>,
                   <<111, 112, 101, 114, 97, 99, 97, 111>>,
                   <<112, 97, 116, 114, 117, 108, 104, 97>>,
                   <<99, 111, 109, 98, 97, 116, 101>>>>],
    \* paz: paz, tranquilidade, harmonia, controle, melhora, redução, diminuição
    [tema |-> <<112, 97, 122>>,
     palavras |-> <<<<112, 97, 122>>,
                   <<116, 114, 97, 110, 113, 117, 105, 108, 105, 100, 97, 100, 101>>,
                   <<104, 97, 114, 109, 111, 110, 105, 97>>,
                   <<99, 111, 110, 116, 114, 111, 108, 101>>,
                   <<109, 101, 108, 104, 111, 114, 97>>,
                   <<114, 101, 100, 117, 231, 227, 111>>,
                   <<100, 105, 109, 105, 110, 117, 105, 231, 227, 111>>>>],
    \* saúde: saúde, hospital, médico, doença, epidemia, vacina, tratamento, sanitário
    [tema |-> <<115, 97, 250, 100, 101>>,
     palavras |-> <<<<115, 97, 250, 100, 101>>,
                   <<104, 111, 115, 112, 105, 116, 97, 108>>,
                   <<109, 233, 100, 105, 99, 111>>,
                   <<100, 111, 101, 110, 231, 97>>,
                   <<101, 112, 105, 100, 101, 109, 105, 97>>,
                   <<118, 97, 99, 105, 110, 97>>,
                   <<116, 114, 97, 116, 97, 109, 101, 110, 116, 111>>,
                   <<115, 97, 110, 105, 116, 225, 114, 105, 111>>>>],
    \* bem-estar: bem-estar, qualidade, vida, saudável, prevenção, cuidados, assistência
    [tema |-> <<98, 101, 109, 45, 101, 115, 116, 97, 114>>,
     palavras |-> <<<<98, 101, 109, 45, 101, 115, 116, 97, 114>>,
                   <<113, 117, 97, 108, 105, 100, 97, 100, 101>>,
                   <<118, 105, 100, 97>>,
                   <<115, 97, 117, 100, 225, 118, 101, 108>>,
                   <<112, 114, 101, 118, 101, 110, 231, 227, 111>>,
                   <<99, 117, 105, 100, 97, 100, 111, 115>>,
                   <<97, 115, 115, 105, 115, 116, 234, 110, 99, 105, 97>>>>],
    \* educação: educação, escola, universidade, professor, ensino, aprendizado, educacional
    [tema |-> <<101, 100, 117, 99, 97, 231, 227, 111>>,
     palavras |-> <<<<101, 100, 117, 99, 97, 231, 227, 111>>,
                   <<101, 115, 99, 111, 108, 97>>,
                   <<117, 110, 105, 118, 101, 114, 115, 105, 100, 97, 100, 101>>,
                   <<112, 114, 111, 102, 101, 115, 115, 111, 114>>,
                   <<101, 110, 115, 105, 110, 111>>,
                   <<97, 112, 114, 101, 110, 100, 105, 122, 97, 100, 111>>,
                   <<101, 100, 117, 99, 97, 99, 105, 111, 110, 97, 108>>>>],
    \* conhecimento: conhecimento, pesquisa, ciência, tecnologia, inovação, descoberta
    [tema |-> <<99, 111, 110, 104, 101, 99, 105, 109, 101, 110, 116, 111>>,
     palavras |-> <<<<99, 111, 110, 104, 101, 99, 105, 109, 101, 110, 116, 111>>,
                   <<112, 101, 115, 113, 117, 105, 115, 97>>,
                   <<99, 105, 234, 110, 99, 105, 97>>,
                   <<116, 101, 99, 110, 111, 108, 111, 103, 105, 97>>,
                   <<105, 110, 111, 118, 97, 231, 227, 111>>,
                   <<100, 101, 115, 99, 111, 98, 101, 114, 116, 97>>>>],
    \* meio ambiente: meio ambiente, natureza, sustentabilidade, clima, poluição, ambiental
    [tema |-> <<109, 101, 105, 111, 32, 97, 109, 98, 105, 101, 110, 116, 101>>,
     palavras |-> <<<<109, 101, 105, 111, 32, 97, 109, 98, 105, 101, 110, 116, 101>>,
                   <<110, 97, 116, 117, 114, 101, 122, 97>>,
                   <<115, 117, 115, 116, 101, 110, 116, 97, 98, 105, 108, 105, 100, 97, 100, 101>>,
                   <<99, 108, 105, 109, 97>>,
                   <<112, 111, 108, 117, 105, 231, 227, 111>>,
                   <<97, 109, 98, 105, 101, 110, 116, 97, 108>>>>],
    \* conservação: conservação, preservação, proteção, recursos, ecologia, biodiversidade
    [tema |-> <<99, 111, 110, 115, 101, 114, 118, 97, 231, 227, 111>>,
     palavras |-> <<<<99, 111, 110, 115, 101, 114, 118, 97, 231, 227, 111>>,
                   <<112, 114, 101, 115, 101, 114, 118, 97, 231, 227, 111>>,
                   <<112, 114, 111, 116, 101, 231, 227, 111>>,
                   <<114, 101, 99, 117, 114, 115, 111, 115>>,
                   <<101, 99, 111, 108, 111, 103, 105, 97>>,
                   <<98, 105, 111, 100, 105, 118, 101, 114, 115, 105, 100, 97, 100, 101>>>>],
    \* tecnologia: tecnologia, digital, internet, aplicativo, software, inovação, digitalização
    [tema |-> <<116, 101, 99, 110, 111, 108, 111, 103, 105, 97>>,
     palavras |-> <<<<116, 101, 99, 110, 111, 108, 111, 103, 105, 97>>,
                   <<100, 105, 103, 105, 116, 97, 108>>,
                   <<105, 110, 116, 101, 114, 110, 101, 116>>,
                   <<97, 112, 108, 105, 99, 97, 116, 105, 118, 111>>,
                   <<115, 111, 102, 116, 119, 97, 114, 101>>,
                   <<105, 110, 111, 118, 97, 231, 227, 111>>,
                   <<100, 105, 103, 105, 116, 97, 108, 105, 122, 97, 231, 227, 111>>>>],
    \* progresso: progresso, desenvolvimento, avanço, modernização, futuro, evolução
    [tema |-> <<112, 114, 111, 103, 114, 101, 115, 115, 111>>,
     palavras |-> <<<<112, 114, 111, 103, 114, 101, 115, 115, 111>>,
                   <<100, 101, 115, 101, 110, 118, 111, 108, 118, 105, 109, 101, 110, 116, 111>>,
                   <<97, 118, 97, 110, 231, 111>>,
                   <<109, 111, 100, 101, 114, 110, 105, 122, 97, 231, 227, 111>>,
                   <<102, 117, 116, 117, 114, 111>>,
                   <<101, 118, 111, 108, 117, 231, 227, 111>>>>],
    \* social: social, comunidade, população, sociedade, público, coletivo
    [tema |-> <<115, 111, 99, 105, 97, 108>>,
     palavras |-> <<<<115, 111, 99, 105, 97, 108>>,
                   <<99, 111, 109, 117, 110, 105, 100, 97, 100, 101>>,
                   <<112, 111, 112, 117, 108, 97, 231, 227, 111>>,
                   <<115, 111, 99, 105, 101, 100, 97, 100, 101>>,
                   <<112, 250, 98, 108, 105, 99, 111>>,
                   <<99, 111, 108, 101, 116, 105, 118, 111>>>>],
    \* desigualdade: desigualdade, pobreza, fome, miséria, exclusão, vulnerabilidade
    [tema |-> <<100, 101, 115, 105, 103, 117, 97, 108, 100, 97, 100, 101>>,
     palavras |-> <<<<100, 101, 115, 105, 103, 117, 97, 108, 100, 97, 100, 101>>,
                   <<112, 111, 98, 114, 101, 122, 97>>,
                   <<102, 111, 109, 101>>,
                   <<109, 105, 115, 233, 114, 105, 97>>,
                   <<101, 120, 99, 108, 117, 115, 227, 111>>,
                   <<118, 117, 108, 110, 101, 114, 97, 98, 105, 108, 105, 100, 97, 100, 101>>>>]
    >>

topic_patterns ==
    <<
    \* economia: economia, mercado, finanças, dinheiro, preço, inflação, dólar, bolsa, empregos, investimento
    [tipo |-> <<101, 99, 111, 110, 111, 109, 105, 97>>,
     palavras |-> <<<<101, 99, 111, 110, 111, 109, 105, 97>>,
                   <<109, 101, 114, 99, 97, 100, 111>>,
                   <<102, 105, 110, 97, 110, 231, 97, 115>>,
                   <<100, 105, 110, 104, 101, 105, 114, 111>>,
                   <<112, 114, 101, 231, 111>>,
                   <<105, 110, 102, 108, 97, 231, 227, 111>>,
                   <<100, 243, 108, 97, 114>>,
                   <<98, 111, 108, 115, 97>>,
                   <<101, 109, 112, 114, 101, 103, 111, 115>>,
                   <<105, 110, 118, 101, 115, 116, 105, 109, 101, 110, 116, 111>>>>],
    \* segurança: criminalidade, crime, violência, segurança, assalto, homicídio, polícia, violento, roubo
    [tipo |-> <<115, 101, 103, 117, 114, 97, 110, 231, 97>>,
     palavras |-> <<<<99, 114, 105, 109, 105, 110, 97, 108, 105, 100, 97, 100, 101>>,
                   <<99, 114, 105, 109, 101>>,
                   <<118, 105, 111, 108, 234, 110, 99, 105, 97>>,
                   <<115, 101, 103, 117, 114, 97, 110, 231, 97>>,
                   <<97, 115, 115, 97, 108, 116, 111>>,
                   <<104, 111, 109, 105, 99, 237, 100, 105, 111>>,
                   <<112, 111, 108, 237, 99, 105, 97>>,
                   <<118, 105, 111, 108, 101, 110, 116, 111>>,
                   <<114, 111, 117, 98, 111>>>>],
    \* política: política, governo, presidente, eleição, partido, ministro, congresso, senado, legislativo
    [tipo |-> <<112, 111, 108, 237, 116, 105, 99, 97>>,
     palavras |-> <<<<112, 111, 108, 237, 116, 105, 99, 97>>,
                   <<103, 111, 118, 101, 114, 110, 111>>,
                   <<112, 114, 101, 115, 105, 100, 101, 110, 116, 101>>,
                   <<101, 108, 101, 105, 231, 227, 111>>,
                   <<112, 97, 114, 116, 105, 100, 111>>,
                   <<109, 105, 110, 105, 115, 116, 114, 111>>,
                   <<99, 111, 110, 103, 114, 101, 115, 115, 111>>,
                   <<115, 101, 110, 97, 100, 111>>,
                   <<108, 101, 103, 105, 115, 108, 97, 116, 105, 118, 111>>>>],
    \* saúde: saúde, hospital, doença, médico, epidemia, vacina, tratamento, médico, hospitalar
    [tipo |-> <<115, 97, 250, 100, 101>>,
     palavras |-> <<<<115, 97, 250, 100, 101>>,
                   <<104, 111, 115, 112, 105, 116, 97, 108>>,
                   <<100, 111, 101, 110, 231, 97>>,
                   <<109, 233, 100, 105, 99, 111>>,
                   <<101, 112, 105, 100, 101, 109, 105, 97>>,
                   <<118, 97, 99, 105, 110, 97>>,
                   <<116, 114, 97, 116, 97, 109, 101, 110, 116, 111>>,
                   <<109, 233, 100, 105, 99, 111>>,
                   <<104, 111, 115, 112, 105, 116, 97, 108, 97, 114>>>>],
    \* educação: educação, escola, universidade, professor, ensino, aluno, educacional, aprendizado
    [tipo |-> <<101, 100, 117, 99, 97, 231, 227, 111>>,
     palavras |-> <<<<101, 100, 117, 99, 97, 231, 227, 111>>,
                   <<101, 115, 99, 111, 108, 97>>,
                   <<117, 110, 105, 118, 101, 114, 115, 105, 100, 97, 100, 101>>,
                   <<112, 114, 111, 102, 101, 115, 115, 111, 114>>,
                   <<101, 110, 115, 105, 110, 111>>,
                   <<97, 108, 117, 110, 111>>,
                   <<101, 100, 117, 99, 97, 99, 105, 111, 110, 97, 108>>,
                   <<97, 112, 114, 101, 110, 100, 105, 122, 97, 100, 111>>>>],
    \* tecnologia: tecnologia, digital, internet, aplicativo, software, ciência, inovação, digital
    [tipo |-> <<116, 101, 99, 110, 111, 108, 111, 103, 105, 97>>,
     palavras |-> <<<<116, 101, 99, 110, 111, 108, 111, 103, 105, 97>>,
                   <<100, 105, 103, 105, 116, 97, 108>>,
                   <<105, 110, 116, 101, 114, 110, 101, 116>>,
                   <<97, 112, 108, 105, 99, 97, 116, 105, 118, 111>>,
                   <<115, 111, 102, 116, 119, 97, 114, 101>>,
                   <<99, 105, 234, 110, 99, 105, 97>>,
                   <<105, 110, 111, 118, 97, 231, 227, 111>>,
                   <<100, 105, 103, 105, 116, 97, 108>>>>],
    \* meio ambiente: meio ambiente, natureza, clima, sustentabilidade, poluição, ambiental, ecologia
    [tipo |-> <<109, 101, 105, 111, 32, 97, 109, 98, 105, 101, 110, 116, 101>>,
     palavras |-> <<<<109, 101, 105, 111, 32, 97, 109, 98, 105, 101, 110, 116, 101>>,
                   <<110, 97, 116, 117, 114, 101, 122, 97>>,
                   <<99, 108, 105, 109, 97>>,
                   <<115, 117, 115, 116, 101, 110, 116, 97, 98, 105, 108, 105, 100, 97, 100, 101>>,
                   <<112, 111, 108, 117, 105, 231, 227, 111>>,
                   <<97, 109, 98, 105, 101, 110, 116, 97, 108>>,
                   <<101, 99, 111, 108, 111, 103, 105, 97>>>>],
    \* social: social, pobreza, desigualdade, comunidade, população, sociedade, comunitário
    [tipo |-> <<115, 111, 99, 105, 97, 108>>,
     palavras |-> <<<<115, 111, 99, 105, 97, 108>>,
                   <<112, 111, 98, 114, 101, 122, 97>>,
                   <<100, 101, 115, 105, 103, 117, 97, 108, 100, 97, 100, 101>>,
                   <<99, 111, 109, 117, 110, 105, 100, 97, 100, 101>>,
                   <<112, 111, 112, 117, 108, 97, 231, 227, 111>>,
                   <<115, 111, 99, 105, 101, 100, 97, 100, 101>>,
                   <<99, 111, 109, 117, 110, 105, 116, 225, 114, 105, 111>>>>]
    >>

\* trend_templates: per domain and direction, the descriptions in order
trend_templates ==
    <<
    \* economia
    [tipo |-> <<101, 99, 111, 110, 111, 109, 105, 97>>,
     positivo |-> <<"crescimento econômico", "expansão do mercado", "melhora nos indicadores">>,
     negativo |-> <<"desaceleração econômica", "crise financeira", "queda nos mercados">>,
     neutro |-> <<"estabilidade econômica", "manutenção dos indicadores">>],
    \* segurança
    [tipo |-> <<115, 101, 103, 117, 114, 97, 110, 231, 97>>,
     positivo |-> <<"melhora na segurança", "redução da criminalidade", "controle da violência">>,
     negativo |-> <<"aumento da criminalidade", "crise de segurança", "piora na violência">>,
     neutro |-> <<"situação estável", "manutenção dos índices">>],
    \* política
    [tipo |-> <<112, 111, 108, 237, 116, 105, 99, 97>>,
     positivo |-> <<"estabilidade política", "avanços governamentais", "consolidação democrática">>,
     negativo |-> <<"instabilidade política", "crise governamental", "conflitos partidários">>,
     neutro |-> <<"cenário político estável", "continuidade administrativa">>],
    \* saúde
    [tipo |-> <<115, 97, 250, 100, 101>>,
     positivo |-> <<"melhora na saúde pública", "avanços médicos", "controle de doenças">>,
     negativo |-> <<"piora na saúde", "crise sanitária", "aumento de doenças">>,
     neutro |-> <<"situação sanitária estável", "manutenção dos serviços">>],
    \* educação
    [tipo |-> <<101, 100, 117, 99, 97, 231, 227, 111>>,
     positivo |-> <<"avanços educacional", "melhora no ensino", "investimentos em educação">>,
     negativo |-> <<"retrocesso educacional", "crise no ensino", "cortes na educação">>,
     neutro |-> <<"estabilidade educacional", "continuidade dos programas">>],
    \* geral
    [tipo |-> <<103, 101, 114, 97, 108>>,
     positivo |-> <<"melhora na situação", "avanços significativos", "progresso">>,
     negativo |-> <<"piora na situação", "dificuldades crescentes", "retrocesso">>,
     neutro |-> <<"manutenção do cenário", "estabilidade", "continuidade">>]
    >>

\* "economia"
Tipo_economia == <<101, 99, 111, 110, 111, 109, 105, 97>>

\* "segurança"
Tipo_seguranca == <<115, 101, 103, 117, 114, 97, 110, 231, 97>>

\* "política"
Tipo_politica == <<112, 111, 108, 237, 116, 105, 99, 97>>

\* "saúde"
Tipo_saude == <<115, 97, 250, 100, 101>>

\* "educação"
Tipo_educacao == <<101, 100, 117, 99, 97, 231, 227, 111>>

\* "geral"
Tipo_geral == <<103, 101, 114, 97, 108>>

\* "tecnologia", "meio ambiente", "social"
Tipo_tecnologia == << 116, 101, 99, 110, 111, 108, 111, 103, 105, 97 >>
Tipo_meio_ambiente == << 109, 101, 105, 111, 32, 97, 109, 98, 105, 101, 110, 116, 101 >>
Tipo_social == << 115, 111, 99, 105, 97, 108 >>

(***************************************************************************)
(* PredictionEngine._extract_key_themes                                    *)
(***************************************************************************)
\* temas[tema] = temas.get(tema, 0) + 1
DictBump(d, k) == IF DictHas(d, k) THEN DictInc(d, k) ELSE Append(d, [k |-> k, v |-> 1])

RECURSIVE CountTitle(_, _, _)
CountTitle(temas, titulo_lower, j) ==
    IF j > Len(palavras_chave) THEN temas
    ELSE IF AnyIn(palavras_chave[j].palavras, titulo_lower)
         THEN CountTitle(DictBump(temas, palavras_chave[j].tema), titulo_lower, j + 1)
    ELSE CountTitle(temas, titulo_lower, j + 1)

RECURSIVE CountTitles(_, _, _)
CountTitles(temas, titulos, i) ==
    IF i > Len(titulos) THEN temas
    ELSE LET t == CountTitle(temas, Lower(titulos[i]), 1)
         IN  IF Len(t) >= 0 THEN CountTitles(t, titulos, i + 1) ELSE t

\* sorted(temas.items(), key = lambda x: x[1], reverse = True): stable, so
\* equal counts keep their insertion order
RECURSIVE InsertByCount(_, _)
InsertByCount(s, x) ==
    IF s = << >> THEN << x >>
    ELSE IF x.v > s[Len(s)].v THEN Append(InsertByCount(SubSeq(s, 1, Len(s) - 1), x), s[Len(s)])
    ELSE Append(s, x)

\* a variant that leaves the items in insertion order
UnsortedItems(s) == s

RECURSIVE SortedByCount(_)
SortedByCount(s) ==
    IF s = << >> THEN s ELSE InsertByCount(SortedByCount(SubSeq(s, 1, Len(s) - 1)), s[Len(s)])

_extract_key_themes(titulos) == SortedByCount(CountTitles(<< >>, titulos, 1))

\* s[:n]
Take(s, n) == SubSeq(s, 1, IF Len(s) < n THEN Len(s) ELSE n)

(***************************************************************************)
(* PredictionEngine._detect_topic_type                                     *)
(***************************************************************************)
RECURSIVE FirstTipo(_, _)
FirstTipo(str, j) ==
    IF j > Len(topic_patterns) THEN << >>
    ELSE IF AnyIn(topic_patterns[j].palavras, str) THEN topic_patterns[j].tipo
    ELSE FirstTipo(str, j + 1)

\* a variant that consults the headline categories before the topic
_detect_topic_type_news_first(tema, temas_principais) ==
    LET byTema == FirstTipo(Lower(tema), 1)
        byNews == FirstTipo(Lower(JoinSpace(temas_principais)), 1)
    IN  IF byNews # << >> THEN byNews
        ELSE IF byTema # << >> THEN byTema
        ELSE Tipo_geral

_detect_topic_type(tema, temas_principais) ==
    LET byTema == FirstTipo(Lower(tema), 1)
        byNews == FirstTipo(Lower(JoinSpace(temas_principais)), 1)
    IN  IF byTema # << >> THEN byTema
        ELSE IF byNews # << >> THEN byNews
        ELSE Tipo_geral

(***************************************************************************)
(* PredictionEngine._generate_short_term_prediction and                    *)
(* _generate_long_term_prediction.  The f-string each returns is kept as   *)
(* the record of the values it renders between its fixed words (the colour *)
(* emoji that opens nivel_alerta is left out).                             *)
(***************************************************************************)
FNeg0_1 == FNeg(F0_1)
FNeg0_2 == FNeg(F0_2)
\* a variant of the cut point: 0.35
F0_35 == FLit(35, 100)
F0_3 == FLit(3, 10)
FNeg0_3 == FNeg(F0_3)
F0_4 == FLit(4, 10)
\* a variant of the cut point: -0.45
FNeg0_45 == FNeg(FLit(45, 100))
FNeg0_4 == FNeg(F0_4)

\* the sentiment n/1000 as the float nearest to it
Milli(n) == IF n < 0 THEN FNeg(FLit(-n, 1000)) ELSE FLit(n, 1000)

\* trend_templates.get(tipo_tema, trend_templates["geral"])
TemplateOf(tipo_tema) ==
    LET hit == {j \in 1..Len(trend_templates) : trend_templates[j].tipo = tipo_tema}
    IN  IF hit # {} THEN trend_templates[CHOOSE j \in hit : TRUE]
        ELSE trend_templates[CHOOSE j \in 1..Len(trend_templates) : trend_templates[j].tipo = Tipo_geral]

\* a variant that picks the second description when the headlines show no theme
_generate_short_term_prediction_by_theme(tema, sentimento_medio, temas_principais, tipo_tema) ==
    LET direcao == IF FLt(sentimento_medio, FNeg0_2) THEN "negativo"
                   ELSE IF FGt(sentimento_medio, F0_2) THEN "positivo"
                   ELSE "neutro"
        intensidade == IF direcao = "negativo"
                       THEN (IF FLt(sentimento_medio, FNeg0_4) THEN "significativa" ELSE "moderada")
                       ELSE IF direcao = "positivo"
                       THEN (IF FGt(sentimento_medio, F0_4) THEN "significativa" ELSE "moderada")
                       ELSE "estável"
        template == TemplateOf(tipo_tema)
        tendencia_desc == template[direcao][IF temas_principais = << >> THEN 2 ELSE 1]
        nivel_alerta == IF direcao = "negativo"
                        THEN (IF intensidade = "significativa" THEN "ALTO" ELSE "MODERADO")
                        ELSE IF direcao = "positivo"
                        THEN (IF intensidade = "significativa" THEN "MUITO POSITIVO" ELSE "POSITIVO")
                        ELSE "ESTÁVEL"
        tom == IF direcao = "negativo"
               THEN (IF intensidade = "significativa" THEN "preocupante" ELSE "cauteloso")
               ELSE IF direcao = "positivo"
               THEN (IF intensidade = "significativa" THEN "otimista" ELSE "favorável")
               ELSE "equilibrado"
    IN  [tema |-> tema, tendencia_desc |-> tendencia_desc, nivel_alerta |-> nivel_alerta,
         area |-> Upper(tipo_tema), sentimento_2f |-> FmtDigits(sentimento_medio, 2), tom |-> tom]

_generate_short_term_prediction(tema, sentimento_medio, temas_principais, tipo_tema) ==
    LET direcao == IF FLt(sentimento_medio, FNeg0_2) THEN "negativo"
                   ELSE IF FGt(sentimento_medio, F0_2) THEN "positivo"
                   ELSE "neutro"
        intensidade == IF direcao = "negativo"
                       THEN (IF FLt(sentimento_medio, FNeg0_4) THEN "significativa" ELSE "moderada")
                       ELSE IF direcao = "positivo"
                       THEN (IF FGt(sentimento_medio, F0_4) THEN "significativa" ELSE "moderada")
                       ELSE "estável"
        template == TemplateOf(tipo_tema)
        tendencia_desc == template[direcao][1]
        nivel_alerta == IF direcao = "negativo"
                        THEN (IF intensidade = "significativa" THEN "ALTO" ELSE "MODERADO")
                        ELSE IF direcao = "positivo"
                        THEN (IF intensidade = "significativa" THEN "MUITO POSITIVO" ELSE "POSITIVO")
                        ELSE "ESTÁVEL"
        tom == IF direcao = "negativo"
               THEN (IF intensidade = "significativa" THEN "preocupante" ELSE "cauteloso")
               ELSE IF direcao = "positivo"
               THEN (IF intensidade = "significativa" THEN "otimista" ELSE "favorável")
               ELSE "equilibrado"
    IN  [tema |-> tema, tendencia_desc |-> tendencia_desc, nivel_alerta |-> nivel_alerta,
         area |-> Upper(tipo_tema), sentimento_2f |-> FmtDigits(sentimento_medio, 2), tom |-> tom]

_generate_long_term_prediction(tema, sentimento_medio, temas_principais, tipo_tema, total_noticias, today) ==
    LET current_year == ord2ymd(today).year
        next_year    == current_year + 1
        two_years    == current_year + 2
        proj == IF FLt(sentimento_medio, FNeg0_3)
                THEN (IF total_noticias > 20
                      THEN [tendencia |-> "deterioração significativa", ate |-> next_year,
                            certeza |-> "alta probabilidade"]
                      ELSE [tendencia |-> "possível deterioração", ate |-> two_years,
                            certeza |-> "moderada probabilidade"])
                ELSE IF FLt(sentimento_medio, FNeg0_1)
                THEN [tendencia |-> "estagnação ou leve deterioração", ate |-> next_year,
                      certeza |-> "moderada probabilidade"]
                ELSE IF FGt(sentimento_medio, F0_3)
                THEN (IF total_noticias > 20
                      THEN [tendencia |-> "melhora significativa", ate |-> next_year,
                            certeza |-> "alta probabilidade"]
                      ELSE [tendencia |-> "progresso gradual", ate |-> two_years,
                            certeza |-> "moderada probabilidade"])
                ELSE IF FGt(sentimento_medio, F0_1)
                THEN [tendencia |-> "melhora moderada", ate |-> next_year,
                      certeza |-> "moderada probabilidade"]
                ELSE [tendencia |-> "estabilidade com flutuações normais", ate |-> next_year,
                      certeza |-> "probabilidade equilibrada"]
        ctx  == IF tipo_tema = Tipo_economia
                THEN [assunto |-> "os indicadores econômicos",
                      detalhe |-> "com impacto no PIB, inflação e emprego"]
                ELSE IF tipo_tema = Tipo_seguranca
                THEN [assunto |-> "os índices de criminalidade",
                      detalhe |-> "afetando a segurança pública"]
                ELSE IF tipo_tema = Tipo_politica
                THEN [assunto |-> "o cenário político",
                      detalhe |-> "influenciando políticas públicas"]
                ELSE IF tipo_tema = Tipo_saude
                THEN [assunto |-> "o sistema de saúde",
                      detalhe |-> "com reflexos na qualidade do atendimento"]
                ELSE IF tipo_tema = Tipo_educacao
                THEN [assunto |-> "os indicadores educacionais",
                      detalhe |-> "impactando a qualidade do ensino"]
                ELSE [assunto |-> "o cenário atual",
                      detalhe |-> "com base nas tendências identificadas"]
    IN  [assunto |-> ctx.assunto, tendencia |-> proj.tendencia, de |-> current_year,
         ate |-> proj.ate, certeza |-> proj.certeza, detalhe |-> ctx.detalhe]

(***************************************************************************)
(* The sentiment scorer (VADER) is an optional import.  An article carries *)
(* in its compound field the score the library gives its title, which the  *)
(* library rounds to four decimals: the field holds it in ten-thousandths. *)
(* When the import or the scoring fails every title scores 0.0.            *)
(***************************************************************************)
\* the titles of the articles, each with the score the scorer gives it
Titulos(artigos) == [i \in 1..Len(artigos) |-> [titulo |-> artigos[i].titulo, compound |-> artigos[i].compound]]

\* analyzer.polarity_scores(t)["compound"]: the float nearest c / 10000
polarity_scores(c) == FLit(c, 10000)

_analyze_sentiments(titulos, vader) ==
    [i \in 1..Len(titulos) |-> IF vader THEN polarity_scores(titulos[i].compound) ELSE FZero]

\* variant: the scores of the titles whether or not the scorer works
_sentiment_unguarded(items, vader) ==
    [i \in 1..Len(items) |-> polarity_scores(items[i].compound)]

_sentiment(items, vader) ==
    [i \in 1..Len(items) |-> IF vader THEN polarity_scores(items[i].compound) ELSE FZero]

(***************************************************************************)
(* PredictionEngine._calculate_content_confidence                          *)
(***************************************************************************)
F0_05 == FLit(5, 100)
F0_95 == FLit(95, 100)

_calculate_content_confidence(artigos, sentimentos) ==
    LET n  == Len(artigos)
        c1 == IF n >= 15 THEN FAdd(FHalf, F0_3)
              ELSE IF n >= 10 THEN FAdd(FHalf, F0_2)
              ELSE IF n >= 5 THEN FAdd(FHalf, F0_1)
              ELSE FHalf
        v  == Call("variance", << sentimentos >>)
        c2 == IF Len(sentimentos) > 1
              THEN (IF FLt(v, F0_05) THEN FAdd(c1, F0_2)
                    ELSE IF FLt(v, F0_1) THEN FAdd(c1, F0_1)
                    ELSE c1)
              ELSE c1
    IN  IF n < 3 THEN F0_3 ELSE FMin(F0_95, FMax(F0_1, c2))

(***************************************************************************)
(* PredictionEngine._generate_content_based_prediction and                 *)
(* analyze_news_content                                                    *)
(***************************************************************************)
_generate_content_based_prediction(tema, artigos, sentimentos, temas_chave, today) ==
    LET sentimento_medio == IF sentimentos # << >> THEN Call("mean", << sentimentos >>) ELSE FZero
        top3             == Take(temas_chave, 3)
        temas_principais == [i \in 1..Len(top3) |-> top3[i].k]
        tipo_tema        == Call("_detect_topic_type", << tema, temas_principais >>)
    IN  [kind  |-> "previsao",
         curto |-> Call("_generate_short_term_prediction",
                       << tema, sentimento_medio, temas_principais, tipo_tema >>),
         longo |-> Call("_generate_long_term_prediction",
                       << tema, sentimento_medio, temas_principais, tipo_tema, Len(artigos), today >>)]

SemNoticias == [kind |-> "texto", texto |-> "Não há notícias suficientes para análise."]

analyze_news_content(tema, artigos, series, vader, today) ==
    IF artigos = << >>
    THEN [previsao_texto |-> SemNoticias, confianca |-> F0_1, sentimento_medio |-> FZero,
          temas_detectados |-> << >>, total_noticias_analisadas |-> 0]
    ELSE LET sentimentos == Call("_analyze_sentiments", << Titulos(artigos), vader >>)
             temas_chave == Call("_extract_key_themes", << [i \in 1..Len(artigos) |-> artigos[i].titulo] >>)
         IN  [previsao_texto |-> Call("_generate_content_based_prediction",
                                   << tema, artigos, sentimentos, temas_chave, today >>),
              confianca |-> Call("_calculate_content_confidence", << artigos, sentimentos >>),
              sentimento_medio |-> Call("mean", << sentimentos >>),
              temas_detectados |-> Take(temas_chave, 5),
              total_noticias_analisadas |-> Len(artigos)]

(***************************************************************************)
(* LLMClient.answer and AnalyticsService.summarize.  The provider call     *)
(* either raises, or returns nothing or blank text, or returns text.       *)
(***************************************************************************)
LlmAnswers == {"raises", "blank", "text"}

answer(llm) ==
    IF llm = "raises" THEN [kind |-> "texto", texto |-> "Falhou gerar resposta"]
    ELSE IF llm = "blank" THEN [kind |-> "texto", texto |-> ""]
    ELSE [kind |-> "texto", texto |-> "LLM"]

summarize(resumo_base, gemini_key, llm) ==
    IF ~gemini_key THEN resumo_base
    ELSE LET text == Call("answer", << llm >>)
         IN  IF text.texto = "" THEN resumo_base ELSE text

\* what one call sees of its environment: whether GEMINI_API_KEY is set, how
\* the provider answers when called, whether the sentiment scorer works
Envs ==
    {[gemini_key |-> FALSE, llm |-> "unused", vader |-> v] : v \in BOOLEAN}
    \cup {[gemini_key |-> TRUE, llm |-> a, vader |-> v] : a \in LlmAnswers, v \in BOOLEAN}

Hipoteses ==
    << "Cobertura deve manter inércia de curto prazo.",
       "Acontecimentos de governo/políticas geram picos pontuais.",
       "Influencers/edtechs podem criar ondas de atenção." >>

\* the outcomes of analyze(tema, artigos, dias) at clock date t with the
\* generator in state rs, one for each way the environment may answer: the
\* result (or the exception raised) and the state the generator is left in
analyze(tema, artigos, dias, t, rs) ==
    LET series  == SortedByDate(Call("build_series", << artigos, dias, t >>))
        basic   == Call("_basic_analyze", << series >>)
        vals    == basic.vals
        trend   == Call("_trend_confidence", << vals >>)
        future_predictions ==
            IF trend.exc # "none" THEN [exc |-> trend.exc, rs |-> rs]
            ELSE Call("generate_future_predictions", << series, 7, rs >>)
        spikes  == Spikes(series, vals)
        analise_conteudo == [v \in BOOLEAN |-> Call("analyze_news_content", << tema, artigos, series, v, t >>)]
        sent_mean(v) ==
            LET sent_scores == Call("_sentiment", << artigos, v >>)
            IN  IF sent_scores # << >>
                THEN FRoundDigits(FDiv(FSum(sent_scores), FromInt(IntMax(1, Len(sent_scores)))), 3)
                ELSE FZero
        sent_means == [v \in BOOLEAN |-> sent_mean(v)]
        result(e) ==
            [exc       |-> "none",
             series    |-> series,
             resumo    |-> Call("summarize", << basic.resumo, e.gemini_key, e.llm >>),
             hipoteses |-> Hipoteses,
             trend     |-> [slope |-> FRoundDigits(trend.slope, 6),
                            pct |-> FRoundDigits(trend.pct, 2),
                            last_delta |-> trend.last_delta,
                            confidence |-> trend.conf_label,
                            score |-> FRoundDigits(trend.score, 4)],
             analytics |-> [sentiment_mean |-> sent_means[e.vader], spikes |-> spikes],
             future_predictions |->
                 [k \in DOMAIN future_predictions \ {"exc", "rs"} |-> future_predictions[k]],
             content_analysis |-> analise_conteudo[e.vader]]
    IN  {[env |-> e,
          rs  |-> future_predictions.rs,
          ret |-> IF future_predictions.exc # "none" THEN Raise(future_predictions.exc)
                  ELSE result(e)] : e \in Envs}

\* the table of the functions: the one named f applied to the arguments a
Apply(f, a) ==
    CASE f = "float_from_int"                     -> float_from_int(a[1])
      [] f = "float_cmp"                          -> float_cmp(a[1], a[2])
      [] f = "float_add"                          -> float_add(a[1], a[2])
      [] f = "float_mul"                          -> float_mul(a[1], a[2])
      [] f = "float_truediv"                      -> float_truediv(a[1], a[2])
      [] f = "float_sqrt"                         -> float_sqrt(a[1])
      [] f = "float_sqrt_frac"                    -> float_sqrt_frac(a[1], a[2])
      [] f = "math_exp"                           -> math_exp(a[1])
      [] f = "float_round"                        -> float_round(a[1], a[2])
      [] f = "float_format"                       -> float_format(a[1], a[2])
      [] f = "float_trunc"                        -> float_trunc(a[1])
      [] f = "build_series"                       -> build_series(a[1], a[2], a[3])
      [] f = "_basic_analyze"                     -> _basic_analyze(a[1])
      [] f = "_trend_confidence"                  -> _trend_confidence(a[1])
      [] f = "_sentiment"                         -> _sentiment(a[1], a[2])
      [] f = "answer"                             -> answer(a[1])
      [] f = "summarize"                          -> summarize(a[1], a[2], a[3])
      [] f = "generate_future_predictions"        -> generate_future_predictions(a[1], a[2], a[3])
      [] f = "detect_patterns"                    -> detect_patterns(a[1])
      [] f = "ForecastIteration"                  -> ForecastIteration(a[1], a[2], a[3])
      [] f = "ForecastResult"                     -> ForecastResult(a[1], a[2])
      [] f = "_calculate_trend"                   -> _calculate_trend(a[1])
      [] f = "_analyze_weekly_pattern"            -> _analyze_weekly_pattern(a[1])
      [] f = "analyze_news_content"               -> analyze_news_content(a[1], a[2], a[3], a[4], a[5])
      [] f = "_analyze_sentiments"                -> _analyze_sentiments(a[1], a[2])
      [] f = "_extract_key_themes"                -> _extract_key_themes(a[1])
      [] f = "_generate_content_based_prediction" -> _generate_content_based_prediction(a[1], a[2], a[3], a[4], a[5])
      [] f = "_generate_short_term_prediction"    -> _generate_short_term_prediction(a[1], a[2], a[3], a[4])
      [] f = "_generate_long_term_prediction"     -> _generate_long_term_prediction(a[1], a[2], a[3], a[4], a[5], a[6])
      [] f = "Milli"                              -> Milli(a[1])
      [] f = "_detect_topic_type"                 -> _detect_topic_type(a[1], a[2])
      [] f = "_calculate_content_confidence"      -> _calculate_content_confidence(a[1], a[2])
      [] f = "analyze"                            -> analyze(a[1], a[2], a[3], a[4], a[5])
      [] f = "mean"                               -> mean(a[1])
      [] f = "variance"                           -> variance(a[1])
      [] f = "pstdev"                             -> pstdev(a[1])
      [] f = "stdev"                              -> stdev(a[1])

\* the value of the call f(*a): a is evaluated once, then f is applied to it
Call(f, a) == CHOOSE r \in {Apply(f, v) : v \in {a}} : TRUE

(***************************************************************************)
(* The state: one pending or finished call of an operation of the service, *)
(* the UTC date of the clock, the state of the process-wide random         *)
(* generator, what the finished call saw of its environment, the cache of  *)
(* the news service, and the requests the server is handling at once.      *)
(***************************************************************************)
VARIABLES pc, call, ret, today, random_state, env, cache, reqs

vars == << pc, call, ret, today, random_state, env, cache, reqs >>

NoRet == [exc |-> "pending"]
NoEnv == [gemini_key |-> FALSE, llm |-> "unused", vader |-> FALSE]
\* the cache of the news service, empty; no request in progress
NoCache == << >>
NoReqs == << >>

(***************************************************************************)
(* Inputs                                                                  *)
(***************************************************************************)
MaxDias == 7
MaxBurst == 10
MaxOffset == 2

\* two clock dates: one whose window reaches back over 29 February, one whose
\* forecast reaches over the end of the year
Todays == {ymd2ord(2024, 3, 2), ymd2ord(2024, 12, 29)}

Seeds == {0, RandomStates - 1}

\* "X", "economia", "Eleição municipal"
TemaX == << 88 >>
TemaEconomia == Tipo_economia
TemaEleicao == << 69, 108, 101, 105, 231, 227, 111, 32, 109, 117, 110, 105, 99, 105, 112, 97, 108 >>

\* "Lei", "Crise", "Alta do dólar"
TituloLei == << 76, 101, 105 >>
TituloCrise == << 67, 114, 105, 115, 101 >>
TituloAlta == << 65, 108, 116, 97, 32, 100, 111, 32, 100, 243, 108, 97, 114 >>

Artigo(dt, titulo, compound) == [dt |-> dt, titulo |-> titulo, compound |-> compound]

\* b articles published at noon UTC, o days before day t
Burst(t, b, o) == [i \in 1..b |-> Artigo(Dt(t - o, 12, 0), TituloLei, 0)]

\* one article on each of the n days up to day t
Daily(t, n) == [i \in 1..n |-> Artigo(Dt(t - n + i, 12, 0), TituloCrise, -5000)]

\* an article with no usable date, one published late in the evening at UTC-3
\* (the next day in UTC), one early in the morning at UTC+9 (the day before)
Mixed(t) ==
    << Artigo(NoDt, TituloAlta, 4404),
       Artigo(Dt(t - 1, 22, -3), TituloAlta, 4404),
       Artigo(Dt(t, 3, 9), TituloCrise, -6249),
       Artigo(Dt(t, 23, -3), TituloLei, 0) >>

ArticleLists(t) ==
    {<< >>, Daily(t, MaxDias), Mixed(t)}
    \cup {Burst(t, b, o) : b \in {1, MaxBurst - 1, MaxBurst}, o \in {0, MaxOffset}}

DiasArgs == {IntArg(d) : d \in 0..MaxDias} \cup {BadArg}

(***************************************************************************)
(* AnalyticsService.analyze                                                *)
(***************************************************************************)
AnalyzeCalls(t) ==
    {[op |-> "analyze", tema |-> TemaX, artigos |-> a, dias |-> d] :
        a \in {<< >>, Daily(t, MaxDias)}, d \in DiasArgs}
    \cup {[op |-> "analyze", tema |-> tm, artigos |-> a, dias |-> IntArg(d)] :
        tm \in {TemaEconomia, TemaEleicao}, a \in ArticleLists(t), d \in {MaxDias - 2, MaxDias}}

InitAnalyze ==
    /\ pc = "call"
    /\ today \in Todays
    /\ call \in AnalyzeCalls(today)
    /\ random_state \in Seeds
    /\ ret = NoRet
    /\ env = NoEnv
    /\ cache = NoCache
    /\ reqs = NoReqs

Analyze ==
    /\ pc = "call"
    /\ call.op = "analyze"
    /\ \E o \in Call("analyze", << call.tema, call.artigos, call.dias, today, random_state >>) :
         /\ ret' = o.ret
         /\ env' = o.env
         /\ random_state' = o.rs
    /\ pc' = "done"
    /\ UNCHANGED << call, today, cache, reqs >>

NextAnalyze == Analyze

SpecAnalyze == InitAnalyze /\ [][NextAnalyze]_vars

(***************************************************************************)
(* AnalyticsService.build_series, called alone                             *)
(***************************************************************************)
MaxArticles == 2

\* None, and datetimes on today, on the oldest day of the widest window and on
\* the day before it: at noon UTC, and where the UTC conversion changes the
\* day (late evening at UTC-3, early morning at UTC+9)
DtChoices(t) ==
    {NoDt,
     Dt(t, 12, 0), Dt(t, 22, -3),
     Dt(t - (MaxDias - 1), 12, 0), Dt(t - (MaxDias - 1), 3, 9),
     Dt(t - MaxDias, 12, 0), Dt(t - MaxDias, 22, -3)}

RECURSIVE SeqsUpTo(_, _)
SeqsUpTo(S, n) ==
    IF n = 0 THEN {<< >>}
    ELSE LET shorter == SeqsUpTo(S, n - 1)
         IN  shorter \cup {Append(q, x) : q \in {r \in shorter : Len(r) = n - 1}, x \in S}

ArtigosOf(ds) == [i \in 1..Len(ds) |-> Artigo(ds[i], TituloLei, 0)]

\* window arguments that are not ints: 0.5, -1.5, 2.5, 180.5, nan, and the
\* strs " 3 ", "-3", "200", "1_0", "abc", "2.5", ""
OtherDias ==
    {FloatArg(1, 2), FloatArg(-3, 2), FloatArg(5, 2), FloatArg(361, 2), NanArg,
     StrArg(<< 32, 51, 32 >>), StrArg(<< 45, 51 >>), StrArg(<< 50, 48, 48 >>),
     StrArg(<< 49, 95, 48 >>), StrArg(<< 97, 98, 99 >>), StrArg(<< 50, 46, 53 >>), StrArg(<< >>)}

\* every window argument with every short article list, and windows at and
\* beyond the upper clamp with at most one article
BuildCalls(t) ==
    {[op |-> "build_series", artigos |-> ArtigosOf(ds), dias |-> d] :
        ds \in SeqsUpTo(DtChoices(t), MaxArticles), d \in DiasArgs \cup {IntArg(-MaxDias)}}
    \cup {[op |-> "build_series", artigos |-> ArtigosOf(ds), dias |-> d] :
        ds \in SeqsUpTo(DtChoices(t), 1),
        d \in {IntArg(170 + MaxDias), IntArg(180 + MaxDias)} \cup OtherDias}

InitBuild ==
    /\ pc = "call"
    /\ today \in Todays
    /\ call \in BuildCalls(today)
    /\ random_state = 0
    /\ ret = NoRet
    /\ env = NoEnv
    /\ cache = NoCache
    /\ reqs = NoReqs

BuildSeries ==
    /\ pc = "call"
    /\ call.op = "build_series"
    /\ ret' = [exc |-> "none", series |-> Call("build_series", << call.artigos, call.dias, today >>)]
    /\ pc' = "done"
    /\ UNCHANGED << call, today, random_state, env, cache, reqs >>

NextBuild == BuildSeries

SpecBuild == InitBuild /\ [][NextBuild]_vars

(***************************************************************************)
(* AnalyticsService._trend_confidence, called alone                        *)
(***************************************************************************)
MaxLen == 3
MaxCount == 3
MaxDoubling == 5

\* 1, 2, 4, ... : n values
Doubling(n) == [i \in 1..n |-> 2 ^ (i - 1)]

CountLists == SeqsUpTo(0..MaxCount, MaxLen) \cup {Doubling(n) : n \in 1..MaxDoubling}

InitTrend ==
    /\ pc = "call"
    /\ today \in Todays
    /\ call \in {[op |-> "_trend_confidence", vals |-> v] : v \in CountLists}
    /\ random_state = 0
    /\ ret = NoRet
    /\ env = NoEnv
    /\ cache = NoCache
    /\ reqs = NoReqs

TrendConfidence ==
    /\ pc = "call"
    /\ call.op = "_trend_confidence"
    /\ ret' = Call("_trend_confidence", << call.vals >>)
    /\ pc' = "done"
    /\ UNCHANGED << call, today, random_state, env, cache, reqs >>

NextTrend == TrendConfidence

SpecTrend == InitTrend /\ [][NextTrend]_vars

(***************************************************************************)
(* PredictionEngine.generate_future_predictions, called alone              *)
(***************************************************************************)
MaxHorizon == 7

\* the series of the counts on the days up to day t
SeriesOf(counts, t) ==
    [i \in 1..Len(counts) |-> [date |-> isoformat(t - Len(counts) + i), count |-> counts[i]]]

MaxPoints == 10

ForecastCounts ==
    SeqsUpTo({0, MaxCount}, MaxLen + 1) \cup {Doubling(n) : n \in 1..MaxDoubling}
    \cup {[i \in 1..MaxDias |-> IF i = MaxDias THEN 3 * MaxBurst ELSE 0]}
    \cup {[i \in 1..n |-> 1 + (i % 2)] : n \in MaxDias..MaxPoints}

InitForecast ==
    /\ pc = "call"
    /\ today \in Todays
    /\ call \in {[op |-> "generate_future_predictions", series |-> SeriesOf(c, today), days_ahead |-> h] :
                    c \in ForecastCounts, h \in {0, 1, MaxHorizon}}
               \cup
               {[op |-> "detect_patterns", series |-> SeriesOf(c, today)] : c \in ForecastCounts}
    /\ random_state \in Seeds
    /\ ret = NoRet
    /\ env = NoEnv
    /\ cache = NoCache
    /\ reqs = NoReqs

GenerateFuturePredictions ==
    /\ pc = "call"
    /\ call.op = "generate_future_predictions"
    /\ \E r \in {Call("generate_future_predictions", << call.series, call.days_ahead, random_state >>)} :
         /\ ret' = [k \in DOMAIN r \ {"rs"} |-> r[k]]
         /\ random_state' = r.rs
    /\ pc' = "done"
    /\ UNCHANGED << call, today, env, cache, reqs >>

DetectPatterns ==
    /\ pc = "call"
    /\ call.op = "detect_patterns"
    /\ ret' = Call("detect_patterns", << call.series >>)
    /\ pc' = "done"
    /\ UNCHANGED << call, today, random_state, env, cache, reqs >>

NextForecast == GenerateFuturePredictions \/ DetectPatterns

SpecForecast == InitForecast /\ [][NextForecast]_vars

(***************************************************************************)
(* PredictionEngine._extract_key_themes, called alone                      *)
(***************************************************************************)
MaxTitles == 2

\* "Governo anuncia nova lei de segurança"
TituloGoverno ==
    << 71, 111, 118, 101, 114, 110, 111, 32, 97, 110, 117, 110, 99, 105, 97, 32, 110, 111, 118,
       97, 32, 108, 101, 105, 32, 100, 101, 32, 115, 101, 103, 117, 114, 97, 110, 231, 97 >>

\* "ELEIÇÃO: Senado vota"
TituloEleicao ==
    << 69, 76, 69, 73, 199, 195, 79, 58, 32, 83, 101, 110, 97, 100, 111, 32, 118, 111, 116, 97 >>

\* "Chuva forte"
TituloChuva == << 67, 104, 117, 118, 97, 32, 102, 111, 114, 116, 101 >>

\* "Avanço da tecnologia"
TituloAvanco ==
    << 65, 118, 97, 110, 231, 111, 32, 100, 97, 32, 116, 101, 99, 110, 111, 108, 111, 103, 105, 97 >>

Headlines ==
    {TituloGoverno, TituloEleicao, TituloChuva, TituloAvanco, TituloLei, TituloCrise, TituloAlta, << >>}

InitThemes ==
    /\ pc = "call"
    /\ today \in Todays
    /\ call \in {[op |-> "_extract_key_themes", titulos |-> ts] : ts \in SeqsUpTo(Headlines, MaxTitles)}
    /\ random_state = 0
    /\ ret = NoRet
    /\ env = NoEnv
    /\ cache = NoCache
    /\ reqs = NoReqs

ExtractKeyThemes ==
    /\ pc = "call"
    /\ call.op = "_extract_key_themes"
    /\ ret' = [exc |-> "none", temas |-> Call("_extract_key_themes", << call.titulos >>)]
    /\ pc' = "done"
    /\ UNCHANGED << call, today, random_state, env, cache, reqs >>

NextThemes == ExtractKeyThemes

SpecThemes == InitThemes /\ [][NextThemes]_vars

(***************************************************************************)
(* NewsService.fetch and its MemoryCache.  The cache is a function from    *)
(* keys to entries; an entry holds its value and its age, time.time() - ts *)
(* in seconds.  The network is what the call meets: the outcome of each    *)
(* attempt and the body of the response.                                   *)
(***************************************************************************)
RSS_TTL_SECONDS == 300
RSS_MAX_ITEMS == 120

\* str(n) for an int n >= 0
RECURSIVE IntStr(_)
IntStr(n) == IF n < 10 THEN << Digit(n) >> ELSE Append(IntStr(n \div 10), Digit(n % 10))

\* f"{tema.strip().lower()}::{max_items}"
_key(tema, max_items) == Lower(Strip(tema)) \o << 58, 58 >> \o IntStr(max_items)

\* a variant that still serves an entry whose age has reached the TTL
cache_get_at_ttl(data, key) ==
    IF key \in DOMAIN data /\ data[key].age <= RSS_TTL_SECONDS
    THEN [hit |-> TRUE, value |-> data[key].value]
    ELSE [hit |-> FALSE]

\* a variant that takes a stored empty list for a miss
cache_get_truthy(data, key) ==
    IF key \in DOMAIN data /\ data[key].age < RSS_TTL_SECONDS /\ data[key].value # << >>
    THEN [hit |-> TRUE, value |-> data[key].value]
    ELSE [hit |-> FALSE]

\* MemoryCache.get: the value of a fresh entry, else None
cache_get(data, key) ==
    IF key \in DOMAIN data /\ data[key].age < RSS_TTL_SECONDS
    THEN [hit |-> TRUE, value |-> data[key].value]
    ELSE [hit |-> FALSE]

\* MemoryCache.set: the entry is stamped with the current time
cache_set(data, key, value) ==
    [k \in DOMAIN data \cup {key} |-> IF k = key THEN [age |-> 0, value |-> value] ELSE data[k]]

\* requests.get(...) then r.raise_for_status(), at the given attempt (from 1)
Request(net, attempt) ==
    IF net.attempts[attempt] = "ok" THEN [exc |-> "none", text |-> net.body]
    ELSE IF net.attempts[attempt] = "timeout" THEN [exc |-> "ConnectionError"]
    ELSE [exc |-> "HTTPError"]

\* for attempt in range(3): try ... break / except: the first attempt that
\* does not raise, 0 when the loop runs out and its else clause is taken
RECURSIVE Attempts(_, _)
Attempts(net, attempt) ==
    IF attempt > 3 THEN 0
    ELSE IF Request(net, attempt).exc = "none" THEN attempt
    ELSE Attempts(net, attempt + 1)

\* dt.astimezone(timezone.utc)
AsUtc(dt) ==
    LET h == dt.hour - dt.off
    IN  Dt(dt.day + ((h + 24) \div 24) - 1, (h + 24) % 24, 0)

\* one <item>: the stripped title and link, and the publication date in UTC,
\* the current time when pubDate is missing or cannot be parsed
ParseItem(it, now) ==
    [titulo |-> Strip(it.title), url |-> Strip(it.link),
     dt |-> IF it.pub.kind = "dt" THEN AsUtc(it.pub) ELSE now]

\* for it in root.findall(".//item"): append when title and link, stop at max_items
RECURSIVE CollectItems(_, _, _, _, _)
CollectItems(els, i, items, max_items, now) ==
    IF i > Len(els) THEN items
    ELSE LET a == ParseItem(els[i], now)
             items2 == IF a.titulo # << >> /\ a.url # << >> THEN Append(items, a) ELSE items
         IN  IF Len(items2) >= max_items THEN items2
             ELSE CollectItems(els, i + 1, items2, max_items, now)

\* the body of the try block: ET.fromstring(r.text) raises on a malformed body
ParseFeed(body, max_items, now) ==
    IF body.kind = "rss"
    THEN [exc |-> "none", items |-> CollectItems(body.items, 1, << >>, max_items, now)]
    ELSE [exc |-> "ParseError"]

\* a variant whose except clause lets the error through
CatchParseReraise(r) == r

\* except Exception: the error is logged and the call goes on to return []
CatchParse(r) == IF r.exc = "none" THEN r ELSE [exc |-> "none", items |-> << >>]

\* max_items or self.cfg.RSS_MAX_ITEMS
OrDefault(max_items) == IF max_items = 0 THEN RSS_MAX_ITEMS ELSE max_items

\* NewsService.fetch: the result, the cache after the call and the number of
\* calls of requests.get the call made
fetch(tema, max_items_arg, data, net, now) ==
    LET max_items == OrDefault(max_items_arg)
        key == _key(tema, max_items)
        cached == cache_get(data, key)
        parsed == CatchParse(ParseFeed(net.body, max_items, now))
    IN  IF cached.hit
        THEN [ret |-> [exc |-> "none", items |-> cached.value], data |-> data, requests |-> 0]
        ELSE IF Attempts(net, 1) = 0
        THEN [ret |-> [exc |-> "none", items |-> << >>], data |-> cache_set(data, key, << >>),
              requests |-> 3]
        ELSE IF parsed.exc # "none"
        THEN [ret |-> [exc |-> parsed.exc], data |-> data, requests |-> Attempts(net, 1)]
        ELSE [ret |-> [exc |-> "none", items |-> parsed.items],
              data |-> cache_set(data, key, parsed.items), requests |-> Attempts(net, 1)]

\* seconds between two looks at the clock
TickSeconds == 150

\* " X", "x", "Lei"
TemaXSpaced == << 32, 88 >>
TemaXLower == << 120 >>

\* "http://n/1"
Link == << 104, 116, 116, 112, 58, 47, 47, 110, 47, 49 >>

\* " Alta do dólar "
TituloAltaSpaced == << 32 >> \o TituloAlta \o << 32 >>

Element(title, link, pub) == [title |-> title, link |-> link, pub |-> pub]

\* a complete item dated late in the evening at UTC-3, one whose link is
\* blank, one whose pubDate cannot be parsed
ItemGood(t) == Element(TituloLei, Link, Dt(t - 1, 22, -3))
ItemNoLink(t) == Element(TituloCrise, << 32 >>, Dt(t, 12, 0))
ItemBadDate == Element(TituloAltaSpaced, Link, NoDt)

Bodies(t) ==
    {[kind |-> "malformed"]}
    \cup {[kind |-> "rss", items |-> els] :
            els \in {<< >>, << ItemNoLink(t) >>,
                     << ItemGood(t), ItemNoLink(t), ItemBadDate >>,
                     << ItemBadDate, ItemGood(t) >>}}

\* the attempts up to the first that succeeds, three when none does; and a
\* server that answers the first attempt and would not answer a second
AttemptLists ==
    {<< "ok" >>, << "timeout", "ok" >>, << "timeout", "http_error", "ok" >>,
     << "ok", "timeout", "ok" >>,
     << "timeout", "timeout", "timeout" >>, << "http_error", "http_error", "http_error" >>,
     << "timeout", "http_error", "timeout" >>}

\* a response body is only read after an attempt that succeeded
Nets(t) ==
    {[attempts |-> a, body |-> b] :
        a \in {x \in AttemptLists : x[Len(x)] = "ok"}, b \in Bodies(t)}
    \cup {[attempts |-> a, body |-> [kind |-> "malformed"]] :
        a \in {x \in AttemptLists : x[Len(x)] # "ok"}}

\* max_items 0 stands for the default None
FetchCalls ==
    {[op |-> "fetch", tema |-> tm, max_items |-> n] : tm \in {TemaXSpaced, TemaXLower}, n \in {0, 1}}
    \cup {[op |-> "fetch", tema |-> TituloLei, max_items |-> 0]}

InitFetch ==
    /\ pc = "call"
    /\ today = ymd2ord(2024, 3, 2)
    /\ call \in FetchCalls
    /\ random_state = 0
    /\ ret = NoRet
    /\ env = NoEnv
    /\ cache = NoCache
    /\ reqs = NoReqs

\* one call of fetch, against whatever the network does; env keeps whether
\* the cache answered and, when it did not, what the network did, the number
\* of HTTP attempts of the call, and the age the entry of its key had when
\* the call began (-1 without an entry)
Fetch ==
    /\ pc = "call"
    /\ call.op = "fetch"
    /\ \E net \in Nets(today) :
         \E o \in {fetch(call.tema, call.max_items, cache, net, Dt(today, 12, 0))} :
            /\ ret' = o.ret
            /\ cache' = o.data
            /\ env' = LET key  == _key(call.tema, OrDefault(call.max_items))
                           seen == IF key \in DOMAIN cache THEN cache[key].age ELSE -1
                       IN  IF o.requests = 0
                           THEN [hit |-> TRUE, requests |-> 0, seen |-> seen]
                           ELSE [hit |-> FALSE, net |-> net, requests |-> o.requests,
                                 seen |-> seen]
    /\ pc' = "done"
    /\ UNCHANGED << call, today, random_state, reqs >>

\* the next call
FetchCall ==
    /\ pc = "done"
    /\ call' \in FetchCalls
    /\ pc' = "call"
    /\ ret' = NoRet
    /\ env' = NoEnv
    /\ UNCHANGED << today, random_state, cache, reqs >>

\* time passes between calls: every entry ages
Tick ==
    /\ pc = "done"
    /\ \E k \in DOMAIN cache : cache[k].age < RSS_TTL_SECONDS
    /\ cache' = [k \in DOMAIN cache |->
                    [cache[k] EXCEPT !.age = IF @ + TickSeconds < RSS_TTL_SECONDS
                                             THEN @ + TickSeconds ELSE RSS_TTL_SECONDS]]
    /\ UNCHANGED << pc, call, ret, today, random_state, env, reqs >>

NextFetch == Fetch \/ FetchCall \/ Tick

SpecFetch == InitFetch /\ [][NextFetch]_vars

(***************************************************************************)
(* Two requests served at once by the threaded server, each inside         *)
(* generate_future_predictions.  A request is at the entry of the          *)
(* function, in its loop, or returned; every call of random.uniform is one *)
(* step of the thread that makes it, on the generator of the random        *)
(* module, and the threads are scheduled in any order.  env keeps the      *)
(* state the generator had before the first request.                       *)
(***************************************************************************)
Threads == {1, 2}
MaxDraws == 3

\* a series too short for a forecast, and one long enough
ForecastRequests(t) ==
    {[pos |-> "entry", series |-> SeriesOf(c, t), days_ahead |-> h, i |-> 0,
      previsoes |-> << >>, draws |-> << >>] :
        c \in {<< 1, 2 >>, << MaxCount, 0, MaxCount >>}, h \in {1, MaxDraws}}

InitConcurrent ==
    /\ pc = "serving"
    /\ today = ymd2ord(2024, 12, 29)
    /\ call = [op |-> "prever"]
    /\ random_state \in Seeds
    /\ ret = NoRet
    /\ env = [seed |-> random_state]
    /\ cache = NoCache
    /\ reqs \in [Threads -> ForecastRequests(today)]

\* if len(series) < 3: return {"previsoes": [], "confianca": 0}
EnterForecast(t) ==
    /\ reqs[t].pos = "entry"
    /\ reqs' = [reqs EXCEPT ![t] =
                  IF InsufficientData(@.series)
                  THEN [@ EXCEPT !.pos = "returned"] @@ [ret |-> [exc |-> "none", previsoes |-> << >>, confianca |-> FZero]]
                  ELSE [@ EXCEPT !.pos = "loop"]]
    /\ UNCHANGED << pc, call, ret, today, random_state, env, cache >>

\* one pass of the loop: the draw reads and advances the generator of the module
DrawForecast(t) ==
    /\ reqs[t].pos = "loop"
    /\ reqs[t].i < reqs[t].days_ahead
    /\ \E r \in {Call("ForecastIteration", << reqs[t].series, reqs[t].i, random_state >>)} :
         /\ reqs' = [reqs EXCEPT ![t] = [@ EXCEPT !.i = @ + 1,
                                                  !.previsoes = @ \o r.previsoes,
                                                  !.draws = Append(@, random_state)]]
         /\ random_state' = r.rs
    /\ UNCHANGED << pc, call, ret, today, env, cache >>

\* the loop is over: the result is built and returned
ReturnForecast(t) ==
    /\ reqs[t].pos = "loop"
    /\ reqs[t].i >= reqs[t].days_ahead
    /\ reqs' = [reqs EXCEPT ![t] =
                  [@ EXCEPT !.pos = "returned"]
                  @@ [ret |-> Call("ForecastResult", << reqs[t].series, reqs[t].previsoes >>)]]
    /\ UNCHANGED << pc, call, ret, today, random_state, env, cache >>

NextConcurrent ==
    \E t \in Threads : EnterForecast(t) \/ DrawForecast(t) \/ ReturnForecast(t)

SpecConcurrent == InitConcurrent /\ [][NextConcurrent]_vars

(***************************************************************************)
(* Two generations of the narrative, one after the other, the clock        *)
(* possibly moving over the end of the year in between.  Each is           *)
(* PredictionEngine.analyze_news_content with the scorer working.          *)
(***************************************************************************)
MaxGap == 3
ManyNews == 21

\* n articles with the same headline and the same score
Uniform(n, titulo, compound) == [i \in 1..n |-> Artigo(NoDt, titulo, compound)]

FirstGenerations ==
    {[tema |-> tm, artigos |-> Uniform(x[1], TituloEleicao, x[2])] :
        tm \in {TemaX, TemaEleicao}, x \in {<< 2, -5000 >>, << ManyNews, 3500 >>}}

SecondGenerations ==
    {[tema |-> tm, artigos |-> Uniform(x[1], ti, x[2])] :
        tm \in {TemaX, TemaEleicao}, ti \in {TituloEleicao, TituloChuva},
        x \in {<< 2, -5000 >>, << ManyNews, 3500 >>, << 2, 3500 >>}}

InitNarrative ==
    /\ pc = "first"
    /\ today \in Todays
    /\ call \in {[op |-> "analyze_news_content", a |-> a, b |-> b] :
                    a \in FirstGenerations, b \in SecondGenerations}
    /\ random_state = 0
    /\ ret = NoRet
    /\ env = NoEnv
    /\ cache = NoCache
    /\ reqs = NoReqs

FirstNarrative ==
    /\ pc = "first"
    /\ ret' = [exc |-> "none", at |-> today,
               a |-> Call("analyze_news_content", << call.a.tema, call.a.artigos, << >>, TRUE, today >>)]
    /\ pc' = "second"
    /\ UNCHANGED << call, today, random_state, env, cache, reqs >>

\* days pass between the two generations
Wait ==
    /\ pc = "second"
    /\ today = ret.at
    /\ today' = today + MaxGap
    /\ UNCHANGED << pc, call, ret, random_state, env, cache, reqs >>

SecondNarrative ==
    /\ pc = "second"
    /\ ret' = ret @@ [b |-> Call("analyze_news_content",
                                << call.b.tema, call.b.artigos, << >>, TRUE, today >>)]
    /\ pc' = "done"
    /\ UNCHANGED << call, today, random_state, env, cache, reqs >>

NextNarrative == FirstNarrative \/ Wait \/ SecondNarrative

SpecNarrative == InitNarrative /\ [][NextNarrative]_vars

(***************************************************************************)
(* PredictionEngine._detect_topic_type, called alone: a topic and the      *)
(* names of the top-ranked headline categories.                            *)
(***************************************************************************)
MaxTop == 3

\* "CRIME e Mercado"
TemaCrimeMercado == << 67, 82, 73, 77, 69, 32, 101, 32, 77, 101, 114, 99, 97, 100, 111 >>

\* the names of the categories of the headline table
CategoryNames == {palavras_chave[j].tema : j \in 1..Len(palavras_chave)}

\* lists of up to n distinct names
RECURSIVE DistinctSeqs(_, _)
DistinctSeqs(S, n) ==
    IF n = 0 THEN {<< >>}
    ELSE LET shorter == DistinctSeqs(S, n - 1)
         IN  shorter \cup UNION {{Append(q, x) : x \in S \ {q[i] : i \in 1..Len(q)}} :
                                    q \in {r \in shorter : Len(r) = n - 1}}

InitTopic ==
    /\ pc = "call"
    /\ today = ymd2ord(2024, 3, 2)
    /\ call \in {[op |-> "_detect_topic_type", tema |-> tm, temas_principais |-> tp] :
                    tm \in {TemaX, TemaEconomia, TemaEleicao, TemaCrimeMercado},
                    tp \in DistinctSeqs(CategoryNames, MaxTop)}
    /\ random_state = 0
    /\ ret = NoRet
    /\ env = NoEnv
    /\ cache = NoCache
    /\ reqs = NoReqs

DetectTopicType ==
    /\ pc = "call"
    /\ call.op = "_detect_topic_type"
    /\ ret' = [exc |-> "none",
               tipo |-> Call("_detect_topic_type", << call.tema, call.temas_principais >>)]
    /\ pc' = "done"
    /\ UNCHANGED << call, today, random_state, env, cache, reqs >>

NextTopic == DetectTopicType

SpecTopic == InitTopic /\ [][NextTopic]_vars

(***************************************************************************)
(* PredictionEngine._generate_short_term_prediction and                    *)
(* _generate_long_term_prediction, each called alone: the sentiment mean   *)
(* in thousandths, on both sides of every cut point.                       *)
(***************************************************************************)
CutPoints == {100, 200, 300, 400}

Millis == {0, 1000, -1000} \cup UNION {{c - 1, c, c + 1, -c - 1, -c, 1 - c} : c \in CutPoints}

AllTipos ==
    {Tipo_economia, Tipo_seguranca, Tipo_politica, Tipo_saude, Tipo_educacao,
     Tipo_tecnologia, Tipo_meio_ambiente, Tipo_social, Tipo_geral}

InitPhrases ==
    /\ pc = "call"
    /\ today \in Todays
    /\ call \in {[op |-> "_generate_short_term_prediction", tema |-> tm, milli |-> n,
                  temas_principais |-> tp, tipo_tema |-> tt] :
                    tm \in {TemaX, TemaEleicao}, n \in Millis,
                    tp \in {<< >>, << Tipo_saude >>}, tt \in AllTipos}
               \cup
               {[op |-> "_generate_long_term_prediction", tema |-> TemaX, milli |-> n,
                  temas_principais |-> << >>, tipo_tema |-> tt, total_noticias |-> k] :
                    n \in Millis, tt \in AllTipos, k \in {0, ManyNews - 1, ManyNews}}
    /\ random_state = 0
    /\ ret = NoRet
    /\ env = NoEnv
    /\ cache = NoCache
    /\ reqs = NoReqs

ShortTerm ==
    /\ pc = "call"
    /\ call.op = "_generate_short_term_prediction"
    /\ \E s \in {Call("Milli", << call.milli >>)} :
          ret' = [exc |-> "none",
                  previsao |-> Call("_generate_short_term_prediction",
                                    << call.tema, s, call.temas_principais, call.tipo_tema >>)]
    /\ pc' = "done"
    /\ UNCHANGED << call, today, random_state, env, cache, reqs >>

LongTerm ==
    /\ pc = "call"
    /\ call.op = "_generate_long_term_prediction"
    /\ \E s \in {Call("Milli", << call.milli >>)} :
          ret' = [exc |-> "none",
                  previsao |-> Call("_generate_long_term_prediction",
                                    << call.tema, s, call.temas_principais, call.tipo_tema,
                                       call.total_noticias, today >>)]
    /\ pc' = "done"
    /\ UNCHANGED << call, today, random_state, env, cache, reqs >>

NextPhrases == ShortTerm \/ LongTerm

SpecPhrases == InitPhrases /\ [][NextPhrases]_vars

(***************************************************************************)
(* PredictionEngine._calculate_trend and AnalyticsService._trend_confidence *)
(* called on the same counts                                                *)
(***************************************************************************)
MaxSlopeLen == 5

InitSlopes ==
    /\ pc = "call"
    /\ today = ymd2ord(2024, 3, 2)
    /\ call \in {[op |-> "slopes", vals |-> v] : v \in SeqsUpTo({0, 1, 3}, MaxSlopeLen)}
    /\ random_state = 0
    /\ ret = NoRet
    /\ env = NoEnv
    /\ cache = NoCache
    /\ reqs = NoReqs

CalculateTrend ==
    /\ pc = "call"
    /\ ret' = [exc |-> "pending", trend |-> Call("_calculate_trend", << call.vals >>)]
    /\ pc' = "trend"
    /\ UNCHANGED << call, today, random_state, env, cache, reqs >>

TrendConfidenceAfter ==
    /\ pc = "trend"
    /\ ret' = [exc |-> "none", trend |-> ret.trend,
               confidence |-> Call("_trend_confidence", << call.vals >>)]
    /\ pc' = "done"
    /\ UNCHANGED << call, today, random_state, env, cache, reqs >>

NextSlopes == CalculateTrend \/ TrendConfidenceAfter

SpecSlopes == InitSlopes /\ [][NextSlopes]_vars

(***************************************************************************)
(* RateLimiter (src/back-end/providers.py), one caller.  Here cache holds  *)
(* self.calls, the times the limiter has recorded; env the real time in    *)
(* seconds at which the last call returned; reqs the real times at which   *)
(* the calls returned from wait_if_needed, sleep included.                 *)
(***************************************************************************)
calls_per_minute == 2
Minute == 60
MaxCalls == 5

\* seconds between the return of a call and the next call
Gaps == {0, 1, Minute \div 2, Minute - 1, Minute}

\* RateLimiter.wait_if_needed at time now: the list it leaves and the
\* seconds it sleeps
wait_if_needed(calls, now) ==
    LET one_minute_ago == now - Minute
        kept       == SelectSeq(calls, LAMBDA call_time : call_time > one_minute_ago)
        sleep_time == IF Len(kept) >= calls_per_minute THEN Minute - (now - kept[1]) ELSE 0
    IN  [calls |-> Append(kept, now), slept |-> IF sleep_time > 0 THEN sleep_time ELSE 0]

InitLimiter ==
    /\ pc = "idle"
    /\ today = ymd2ord(2024, 3, 2)
    /\ call = [op |-> "wait_if_needed"]
    /\ random_state = 0
    /\ ret = NoRet
    /\ env = [clock |-> 0]
    /\ cache = << >>
    /\ reqs = << >>

\* one call, from its entry to its return
WaitIfNeeded ==
    /\ pc = "idle"
    /\ Len(reqs) < MaxCalls
    /\ \E gap \in Gaps :
         \E o \in {wait_if_needed(cache, env.clock + gap)} :
            /\ cache' = o.calls
            /\ env' = [clock |-> env.clock + gap + o.slept]
            /\ reqs' = Append(reqs, env.clock + gap + o.slept)
            /\ ret' = [exc |-> "none", slept |-> o.slept]
    /\ UNCHANGED << pc, call, today, random_state >>

NextLimiter == WaitIfNeeded

SpecLimiter == InitLimiter /\ [][NextLimiter]_vars

(***************************************************************************)
(* Properties                                                              *)
(***************************************************************************)
Done(op) == pc = "done" /\ call.op = op

Constant(vals) == \A i, j \in 1..Len(vals) : vals[i] = vals[j]

Dates(series) == [i \in 1..Len(series) |-> series[i].date]

\* C1: for a window argument D in [1, 180], analyze returns a series of exactly
\* D points, one per calendar day, on consecutive ascending dates of which the
\* last is the current UTC date, each count a non-negative integer.
C1_SeriesWindow ==
    (Done("analyze") /\ call.dias.kind = "int" /\ call.dias.n \in 1..180) =>
        /\ ret.exc = "none"
        /\ Len(ret.series) = call.dias.n
        /\ \A i \in 1..Len(ret.series) :
             /\ ret.series[i].count \in Nat
             /\ ret.series[i].date = isoformat(today - call.dias.n + i)
             /\ fromisoformat(ret.series[i].date) = today - call.dias.n + i
             /\ i > 1 => StrLess(ret.series[i - 1].date, ret.series[i].date)

C1_Witness ==
    /\ Done("analyze")
    /\ call.dias = IntArg(MaxDias)
    /\ ret.exc = "none"
    /\ Len(ret.series) = MaxDias
    /\ \E i \in 1..Len(ret.series) : ret.series[i].count > 0

InWindow(a, dias, t) ==
    /\ a.dt.kind = "dt"
    /\ UtcDate(a.dt) \in (t - CoerceDias(dias) + 1)..t

\* C2: the counts of the series build_series returns add up to the number of
\* the articles whose date, converted to UTC, lies in the window; articles
\* dated outside it, or with no usable date, are left out.
C2_CountsSum ==
    Done("build_series") =>
        SumInts(Counts(ret.series)) =
            Cardinality({i \in 1..Len(call.artigos) : InWindow(call.artigos[i], call.dias, today)})

C2_Witness ==
    /\ Done("build_series")
    /\ Len(call.artigos) = 2
    /\ SumInts(Counts(ret.series)) = 1
    /\ \E i \in 1..2 : /\ InWindow(call.artigos[i], call.dias, today)
                       /\ UtcDate(call.artigos[i].dt) # call.artigos[i].dt.day

C3Case ==
    /\ Done("analyze")
    /\ call.tema = TemaX
    /\ call.artigos = << >>
    /\ call.dias = IntArg(7)

\* C3 as stated: analyze("X", [], 7) returns a forecast with no points and
\* confidence 0.
C3_EmptyForecastOriginal ==
    C3Case =>
        /\ ret.exc = "none"
        /\ ret.future_predictions.previsoes = << >>
        /\ FIsZero(ret.future_predictions.confianca)

\* C3 amended: analyze("X", [], 7) returns a forecast of 7 points, each with
\* count 0 and flagged as a prediction, with confidence 0.7; for an empty
\* article list the forecast with no points and confidence 0 is returned
\* exactly when the window has fewer than 3 days.
C3_EmptyForecast ==
    /\ C3Case =>
         /\ ret.exc = "none"
         /\ Len(ret.future_predictions.previsoes) = 7
         /\ \A i \in 1..7 : /\ ret.future_predictions.previsoes[i].count = 0
                            /\ ret.future_predictions.previsoes[i].is_prediction
         /\ ret.future_predictions.confianca = FLit(7, 10)
    /\ (Done("analyze") /\ call.artigos = << >>) =>
         /\ ret.exc = "none"
         /\ Len(ret.series) < 3 <=> ret.future_predictions.previsoes = << >>
         /\ Len(ret.series) < 3 <=> FIsZero(ret.future_predictions.confianca)

C3_Witness ==
    /\ C3Case
    /\ ret.exc = "none"
    /\ Len(ret.series) = 7
    /\ Len(ret.future_predictions.previsoes) = 7

\* C4: for an empty article list and any window D, analyze returns D points
\* all of count 0, slope 0, pct 0, last delta 0, no spikes, sentiment mean
\* 0.0, and the no-data text as content narrative.
C4_EmptyListDefaults ==
    (Done("analyze") /\ call.artigos = << >>) =>
        /\ ret.exc = "none"
        /\ Len(ret.series) >= 1
        /\ (call.dias.kind = "int" /\ call.dias.n \in 1..180) => Len(ret.series) = call.dias.n
        /\ \A i \in 1..Len(ret.series) : ret.series[i].count = 0
        /\ ret.trend.slope = FZero
        /\ ret.trend.pct = FZero
        /\ ret.trend.last_delta = 0
        /\ ret.analytics.spikes = << >>
        /\ ret.analytics.sentiment_mean = FZero
        /\ ret.content_analysis.previsao_texto =
               [kind |-> "texto", texto |-> "Não há notícias suficientes para análise."]

C4_Witness ==
    /\ Done("analyze")
    /\ call.artigos = << >>
    /\ call.dias = IntArg(MaxDias)
    /\ ret.exc = "none"
    /\ Len(ret.series) = MaxDias
    /\ ret.trend.pct = FZero

\* C5: on degenerate inputs (empty article list, a window of 1 or 2 days, a
\* constant series) analyze raises nothing and returns the defaults: the
\* trend (0.0, 0.0, 0, 0.5, "Média") for a single point, an empty forecast
\* with confidence 0 below 3 points, slope 0, score 0.5 and no spikes for a
\* constant series.
C5_NoRaiseOnDegenerate ==
    Done("analyze") =>
        LET s == build_series(call.artigos, call.dias, today)
        IN  (call.artigos = << >> \/ Len(s) <= 2 \/ Constant(Counts(s))) =>
                /\ ret.exc = "none"
                /\ Len(s) = 1 =>
                     /\ ret.trend = [slope |-> FZero, pct |-> FZero, last_delta |-> 0,
                                     confidence |-> "Média", score |-> FHalf]
                /\ Len(s) < 3 =>
                     /\ ret.future_predictions.previsoes = << >>
                     /\ FIsZero(ret.future_predictions.confianca)
                /\ Constant(Counts(s)) =>
                     /\ ret.trend.slope = FZero
                     /\ ret.trend.score = FHalf
                     /\ ret.trend.confidence = "Média"
                     /\ ret.analytics.spikes = << >>

C5_Witness ==
    /\ Done("analyze")
    /\ call.dias = IntArg(1)
    /\ call.artigos # << >>
    /\ ret.exc = "none"
    /\ Len(ret.series) = 1
    /\ ret.series[1].count > 0
    /\ ret.trend.score = FHalf

\* z >= 2 in exact arithmetic, for integer counts: with S the sum and V = n *
\* (sum of squares) - S^2, sigma = sqrt(V) / n, so sigma > 1e-6 iff V > 0 (for
\* n <= 180), and (c - mu) / sigma >= 2 iff n * c >= S and (n * c - S)^2 >= 4 V
ExactSpike(vals, i) ==
    LET n == Len(vals)
        S == SumInts(vals)
        V == n * SumSq(vals) - S * S
    IN  /\ V > 0
        /\ n * vals[i] >= S
        /\ (n * vals[i] - S) * (n * vals[i] - S) >= 4 * V

\* C6: the spikes are exactly the dates whose count c satisfies sigma > 1e-6
\* and (c - mu) / sigma >= 2.0, the boundary z = 2.0 included, in ascending
\* date order, a subset of the series dates, and none for a constant series.
C6_SpikesAtTwoSigma ==
    (Done("analyze") /\ ret.exc = "none") =>
        LET vals == Counts(ret.series)
        IN  ret.analytics.spikes =
                SelectSeq2(Dates(ret.series), [i \in 1..Len(vals) |-> ExactSpike(vals, i)], 1)

\* the part of C6 that the code does meet: every reported spike is a date of
\* the series at z >= 2, in ascending order; [0, 0, 0, 0, MaxBurst] flags
\* only its last date
C6_SpikesSound ==
    (Done("analyze") /\ ret.exc = "none") =>
        LET vals == Counts(ret.series)
            sp   == ret.analytics.spikes
        IN  /\ \A k \in 1..Len(sp) :
                 /\ \E i \in 1..Len(vals) : ret.series[i].date = sp[k] /\ ExactSpike(vals, i)
                 /\ k > 1 => StrLess(sp[k - 1], sp[k])
            /\ Constant(vals) => sp = << >>
            /\ vals = << 0, 0, 0, 0, 10 >> => sp = << ret.series[5].date >>

C6_Witness ==
    /\ Done("analyze")
    /\ ret.exc = "none"
    /\ Counts(ret.series) = << 0, 0, 0, 0, 10 >>
    /\ ret.analytics.spikes = << isoformat(today) >>

C7Case == Done("_trend_confidence") /\ call.vals = << 1, 2, 4, 8, 16 >>

\* C7 as stated: for the counts [1, 2, 4, 8, 16] the slope is positive and the
\* confidence label is High, the score being above 0.66.
C7_DoublingHighOriginal ==
    C7Case =>
        /\ ret.exc = "none"
        /\ FGt(ret.slope, FZero)
        /\ FGt(ret.score, F0_66)
        /\ ret.conf_label = "Alta"

\* C7 amended: for the counts [1, 2, 4, 8, 16] the slope is 3.6, positive, the
\* score lies between 0.65 and 0.66, and the confidence label is Medium.
C7_DoublingMedium ==
    C7Case =>
        /\ ret.exc = "none"
        /\ ret.slope = FLit(36, 10)
        /\ FGt(ret.slope, FZero)
        /\ FGt(ret.score, FLit(65, 100))
        /\ FLt(ret.score, F0_66)
        /\ ret.conf_label = "Média"

C7_Witness == C7Case /\ ret.exc = "none" /\ ret.last_delta = 8

Logistic(slope, vals) ==
    FDiv(FOne, FAdd(FOne, FExp(FNeg(FDiv(slope, FAdd(pstdev(vals), F1e_6))))))

\* C8: for a list of at least 2 counts the score lies in [0, 1] and equals
\* logistic(slope / (pstdev + 1e-6)); the label is High above 0.66, Low below
\* 0.33 and Medium otherwise; a constant list gives slope 0, score 0.5 and
\* Medium.
C8_ScoreAndLabel ==
    (Done("_trend_confidence") /\ Len(call.vals) >= 2) =>
        /\ ret.exc = "none"
        /\ FGe(ret.score, FZero)
        /\ FLe(ret.score, FOne)
        /\ ret.score = Logistic(ret.slope, call.vals)
        /\ ret.conf_label = (IF FGt(ret.score, FLit(66, 100)) THEN "Alta"
                             ELSE IF FLt(ret.score, FLit(33, 100)) THEN "Baixa"
                             ELSE "Média")
        /\ Constant(call.vals) =>
             /\ ret.slope = FZero
             /\ ret.score = FHalf
             /\ ret.conf_label = "Média"

C8_Witness ==
    /\ Done("_trend_confidence")
    /\ Len(call.vals) >= 2
    /\ ret.exc = "none"
    /\ ret.conf_label = "Baixa"
    /\ FLt(ret.slope, FZero)

\* C9: for a series of n >= 3 points and a horizon H,
\* generate_future_predictions returns exactly H points, the i-th dated i
\* days after the last date of the series, in ascending order, each with a
\* non-negative integer count and the prediction flag set; for n < 3 it
\* returns no points and confidence 0.
C9_ForecastPoints ==
    Done("generate_future_predictions") =>
        LET n    == Len(call.series)
            H    == call.days_ahead
            last == fromisoformat(call.series[n].date)
        IN  IF n >= 3
            THEN /\ ret.exc = "none"
                 /\ Len(ret.previsoes) = H
                 /\ \A i \in 1..Len(ret.previsoes) :
                      /\ ret.previsoes[i].date = isoformat(last + i)
                      /\ ret.previsoes[i].count \in Nat
                      /\ ret.previsoes[i].is_prediction = TRUE
                      /\ i > 1 => StrLess(ret.previsoes[i - 1].date, ret.previsoes[i].date)
            ELSE /\ ret.exc = "none"
                 /\ ret.previsoes = << >>
                 /\ FIsZero(ret.confianca)

C9_Witness ==
    /\ Done("generate_future_predictions")
    /\ Len(call.series) >= 3
    /\ call.days_ahead = MaxHorizon
    /\ ret.exc = "none"
    /\ Len(ret.previsoes) = MaxHorizon
    /\ \E i \in 1..Len(ret.previsoes) : ret.previsoes[i].count > 0

\* "governo", "política", "medidas", "segurança"
Tema_governo == << 103, 111, 118, 101, 114, 110, 111 >>
Tema_politica == << 112, 111, 108, 237, 116, 105, 99, 97 >>
Tema_medidas == << 109, 101, 100, 105, 100, 97, 115 >>
Tema_seguranca == << 115, 101, 103, 117, 114, 97, 110, 231, 97 >>

C10Case == Done("_extract_key_themes") /\ call.titulos = << TituloGoverno >>

CountedOnce(temas, k) == \E i \in 1..Len(temas) : temas[i].k = k /\ temas[i].v = 1

\* C10 as stated: the headline "Governo anuncia nova lei de segurança" is
\* counted in the categories governo, política, medidas and segurança.
C10_HeadlineThemesOriginal ==
    C10Case =>
        /\ CountedOnce(ret.temas, Tema_governo)
        /\ CountedOnce(ret.temas, Tema_politica)
        /\ CountedOnce(ret.temas, Tema_medidas)
        /\ CountedOnce(ret.temas, Tema_seguranca)

\* C10 amended: the headline "Governo anuncia nova lei de segurança" is
\* counted once in each of governo, medidas and segurança, in that order, and
\* in no other category; it holds no trigger of política.
C10_HeadlineThemes ==
    C10Case =>
        /\ ret.temas = << [k |-> Tema_governo, v |-> 1], [k |-> Tema_medidas, v |-> 1],
                          [k |-> Tema_seguranca, v |-> 1] >>
        /\ \A j \in 1..Len(palavras_chave) :
             palavras_chave[j].tema = Tema_politica =>
                 ~AnyIn(palavras_chave[j].palavras, Lower(TituloGoverno))

C10_Witness == C10Case /\ ret.exc = "none" /\ Len(ret.temas) = 3

\* the draft summary _basic_analyze produces for the series of the result
Draft == Call("_basic_analyze", << ret.series >>).resumo

\* C11: when the text refiner is absent (no API key) or its call fails, the
\* resumo of the analyze result is exactly the draft of _basic_analyze, never
\* an error message or any other text.
C11_DraftOnAbsenceOrFailure ==
    (Done("analyze") /\ ret.exc = "none" /\ (~env.gemini_key \/ env.llm = "raises")) =>
        ret.resumo = Draft

\* the part of C11 the code does meet: with no API key, or when the provider
\* returns nothing or blank text, the resumo is the draft; when the provider
\* call raises, the resumo is the error text LLMClient.answer returns
C11_DraftOnAbsence ==
    (Done("analyze") /\ ret.exc = "none") =>
        /\ (~env.gemini_key \/ env.llm = "blank") => ret.resumo = Draft
        /\ (env.gemini_key /\ env.llm = "raises") =>
               ret.resumo = [kind |-> "texto", texto |-> "Falhou gerar resposta"]

C11_Witness ==
    /\ Done("analyze")
    /\ ret.exc = "none"
    /\ env.gemini_key
    /\ env.llm = "blank"
    /\ ret.resumo = Draft
    /\ ret.resumo.last > 0

\* the sum of the scores of the articles, in ten-thousandths
CompoundSum(artigos) == SumInts([i \in 1..Len(artigos) |-> artigos[i].compound])

\* r is the float of a number of thousandths k that lies within half a
\* thousandth of the mean of n scores whose sum is S ten-thousandths
RoundedMean(r, S, n) ==
    LET k0 == (2 * S + 10 * n) \div (20 * n)
    IN  \E k \in {k0 - 1, k0, k0 + 1} :
            /\ IntAbs(10 * n * k - S) <= 5 * n
            /\ r = FLit(k, 1000)

\* C12: when the sentiment scorer is unavailable or fails analyze returns
\* normally with sentiment mean 0.0; the mean is also 0.0 for an empty article
\* list, and otherwise it is the arithmetic mean of the scores of the articles
\* rounded to 3 decimals.
C12_SentimentMean ==
    Done("analyze") =>
        LET n == Len(call.artigos)
        IN  /\ ~env.vader => (ret.exc = "none" /\ ret.analytics.sentiment_mean = FZero)
            /\ (ret.exc = "none" /\ n = 0) => ret.analytics.sentiment_mean = FZero
            /\ (ret.exc = "none" /\ env.vader /\ n > 0) =>
                   RoundedMean(ret.analytics.sentiment_mean, CompoundSum(call.artigos), n)

C12_Witness ==
    /\ Done("analyze")
    /\ ~env.vader
    /\ call.artigos = Mixed(today)
    /\ CompoundSum(call.artigos) = 2559
    /\ ret.exc = "none"
    /\ ret.analytics.sentiment_mean = FZero

\* the scorer working: the scores 0.4404, 0.4404, -0.6249 and 0.0 have mean
\* 0.063975, reported as 0.064
C12_MeanReached ==
    /\ Done("analyze")
    /\ env.vader
    /\ call.artigos = Mixed(today)
    /\ ret.exc = "none"
    /\ ret.analytics.sentiment_mean = FLit(64, 1000)

\* the call met a failure: no attempt succeeded, or the body could not be
\* parsed, or the feed held no item
FetchFailed ==
    /\ ~env.hit
    /\ \/ env.net.attempts[Len(env.net.attempts)] # "ok"
       \/ env.net.body.kind = "malformed"
       \/ env.net.body.items = << >>

C13_AllAttemptsFail ==
    Done("fetch") /\ ~env.hit /\ env.net.attempts = << "timeout", "http_error", "timeout" >>
        /\ ret.items = << >>
C13_EmptyFeed ==
    Done("fetch") /\ ~env.hit /\ env.net.body.kind = "rss" /\ env.net.body.items = << >>
        /\ ret.items = << >>
C13_ItemsFetched ==
    Done("fetch") /\ ~env.hit /\ call.max_items = 0 /\ Len(ret.items) = 2
        /\ ret.items[1].dt = Dt(today, 12, 0) /\ ret.items[2].dt = Dt(today, 1, 0)
C13_CacheHit == Done("fetch") /\ env.hit /\ call.tema = TemaXSpaced /\ Len(ret.items) = 1

\* the state of the generator after k draws from state rs
RECURSIVE RandomAfter(_, _)
RandomAfter(rs, k) == IF k = 0 THEN rs ELSE RandomAfter(RandomNext(rs), k - 1)

\* the draws are those of a generator of its own, started in state rs
OwnSequence(draws, rs) == \A k \in 1..Len(draws) : draws[k] = RandomAfter(rs, k - 1)

\* C14: the random source of the forecast step is request-scoped: the
\* perturbation sequence a call observes is that of its own generator, the
\* same whether or not, and however often, a concurrent call draws.
C14_RequestScoped == \A t \in Threads : OwnSequence(reqs[t].draws, env.seed)

\* as the program is: every draw of either request advances the one generator
\* of the random module, so a request sees the states the other left behind
C14_SharedGenerator ==
    /\ random_state = RandomAfter(env.seed, Len(reqs[1].draws) + Len(reqs[2].draws))
    /\ \A t \in Threads : \A k \in 1..Len(reqs[t].draws) :
          \E j \in (k - 1)..(k - 1 + Len(reqs[3 - t].draws)) :
             reqs[t].draws[k] = RandomAfter(env.seed, j)

\* both requests returned after three draws each, the draws of the first
\* interleaved with those of the second
C14_Witness ==
    /\ \A t \in Threads : reqs[t].pos = "returned" /\ Len(reqs[t].draws) = MaxDraws
    /\ reqs[1].draws[1] = env.seed
    /\ reqs[1].draws[2] # RandomNext(reqs[1].draws[1])
    /\ reqs[1].ret.previsoes = reqs[1].previsoes

\* the two generations had the same domain, sentiment mean and article count
SameNarrativeInputs ==
    /\ ret.a.previsao_texto.curto.area = ret.b.previsao_texto.curto.area
    /\ ret.a.sentimento_medio = ret.b.sentimento_medio
    /\ ret.a.total_noticias_analisadas = ret.b.total_noticias_analisadas

\* C15 as stated: two generations with the same domain, the same sentiment
\* mean and the same article count yield identical short-term and long-term
\* strings, whatever the topic string and whatever the moment of the call.
C15_NarrativePureOriginal ==
    (Done("analyze_news_content") /\ SameNarrativeInputs) =>
        ret.a.previsao_texto = ret.b.previsao_texto

\* C15: two generations with the same topic string, the same domain, the
\* same sentiment mean and the same article count, made in the same calendar
\* year, yield identical short-term and long-term strings, whatever the
\* headlines and the day of the year.
C15_NarrativePure ==
    (Done("analyze_news_content") /\ SameNarrativeInputs /\ call.a.tema = call.b.tema
        /\ ord2ymd(ret.at).year = ord2ymd(today).year) =>
        ret.a.previsao_texto = ret.b.previsao_texto

\* the same topic and domain from different headlines, days apart in one year
C15_Witness ==
    /\ Done("analyze_news_content")
    /\ SameNarrativeInputs
    /\ call.a.tema = TemaEleicao /\ call.b.tema = TemaEleicao
    /\ call.a.artigos = Uniform(ManyNews, TituloEleicao, 3500)
    /\ call.b.artigos = Uniform(ManyNews, TituloChuva, 3500)
    /\ ret.a.temas_detectados # ret.b.temas_detectados
    /\ today = ret.at + MaxGap
    /\ ret.a.previsao_texto = ret.b.previsao_texto

\* the same domain reached from two topic strings: the short-term strings differ
C15_TopicShows ==
    /\ Done("analyze_news_content")
    /\ SameNarrativeInputs
    /\ call.a.tema # call.b.tema
    /\ today = ret.at
    /\ ret.a.previsao_texto.curto # ret.b.previsao_texto.curto
    /\ ret.a.previsao_texto.longo = ret.b.previsao_texto.longo

\* the same inputs on either side of the new year: the long-term strings differ
C15_YearShows ==
    /\ Done("analyze_news_content")
    /\ SameNarrativeInputs
    /\ call.a = call.b
    /\ ret.a.previsao_texto.curto = ret.b.previsao_texto.curto
    /\ ret.a.previsao_texto.longo # ret.b.previsao_texto.longo

\* the window argument is a number: an int, a float other than nan, or the
\* text of an integer
NumericDias(d) ==
    \/ d.kind \in {"int", "float"}
    \/ d.kind = "str" /\ IsNumeral(Numeral(d.str))

\* the number is below lo, above hi
DiasBelow(d, lo) ==
    IF d.kind = "int" THEN d.n < lo
    ELSE IF d.kind = "float" THEN d.num < lo * d.den
    ELSE int(d).v < lo
DiasAbove(d, hi) ==
    IF d.kind = "int" THEN d.n > hi
    ELSE IF d.kind = "float" THEN d.num > hi * d.den
    ELSE int(d).v > hi

C16_Below == Done("build_series") /\ call.dias = FloatArg(-3, 2) /\ Len(ret.series) = 1
C16_Above == Done("build_series") /\ call.dias = FloatArg(361, 2) /\ Len(ret.series) = 180
C16_Numeral == Done("build_series") /\ call.dias = StrArg(<< 49, 95, 48 >>) /\ Len(ret.series) = 10

\* the series build_series returns for the articles without the one at index i
SeriesWithout(i) ==
    build_series(SubSeq(call.artigos, 1, i - 1) \o SubSeq(call.artigos, i + 1, Len(call.artigos)),
                 call.dias, today)

\* C17: an article whose timestamp is missing or unparsable, or whose UTC date
\* lies outside the window, leaves every bucket unchanged and does not make
\* build_series fail; the other articles of the batch are still counted,
\* whatever the position of the bad article in the list.
C17_BadArticleDropped ==
    Done("build_series") =>
        /\ ret.exc = "none"
        /\ \A i \in 1..Len(call.artigos) :
             ~InWindow(call.artigos[i], call.dias, today) => ret.series = SeriesWithout(i)

\* an article without a date before one of today
C17_Witness ==
    /\ Done("build_series")
    /\ call.dias = IntArg(MaxDias)
    /\ call.artigos = ArtigosOf(<< NoDt, Dt(today, 12, 0) >>)
    /\ ret.series = SeriesWithout(1)
    /\ ret.series[MaxDias].count = 1

\* an article of the first day of the window before one that is a day earlier in UTC
C17_BadLast ==
    /\ Done("build_series")
    /\ call.dias = IntArg(MaxDias)
    /\ call.artigos = ArtigosOf(<< Dt(today - (MaxDias - 1), 12, 0), Dt(today - (MaxDias - 1), 3, 9) >>)
    /\ ret.series = SeriesWithout(2)
    /\ ret.series[1].count = 1

\* the float x is the rational num / den (den > 0) up to a relative error of 2^-40
NearRatio(x, num, den) ==
    IF num = 0 THEN FIsZero(x)
    ELSE /\ ~FIsZero(x)
         /\ x.s = (IF num < 0 THEN 1 ELSE 0)
         /\ LET k == IF x.e < 0 THEN -x.e ELSE 0
                L == BShl(BMulSmall(x.m, den), x.e + k)
                R == BShl(BFromInt(IntAbs(num)), k)
                D == IF BCmp(L, R) >= 0 THEN BSub(L, R) ELSE BSub(R, L)
            IN  BCmp(BShl(D, 40), R) <= 0

\* C18: for a count list of length n >= 2, pct is (last - m) / m * 100 with m
\* the mean of all counts but the last; when m is 0, pct is 0 if the last
\* count is 0 and 100 otherwise.
C18_PctChange ==
    (Done("_trend_confidence") /\ Len(call.vals) >= 2) =>
        LET n    == Len(call.vals)
            last == call.vals[n]
            S    == SumInts(SubSeq(call.vals, 1, n - 1))
        IN  /\ ret.exc = "none"
            /\ S = 0 => ret.pct = (IF last = 0 THEN FZero ELSE FromInt(100))
            /\ S > 0 => NearRatio(ret.pct, 100 * (last * (n - 1) - S), S)

\* counts 1, 2, 3: m = 3/2 and pct = 100
C18_Witness ==
    /\ Done("_trend_confidence")
    /\ call.vals = << 1, 2, 3 >>
    /\ ret.pct = FromInt(100)

\* counts 3, 3, 1: m = 3, pct = -200/3; nothing before a last count of 2: 100
C18_Inexact ==
    /\ Done("_trend_confidence")
    /\ call.vals = << 3, 3, 1 >>
    /\ NearRatio(ret.pct, -200, 3)
    /\ ~NearRatio(ret.pct, -199, 3)
C18_FromZero ==
    Done("_trend_confidence") /\ call.vals = << 0, 0, 2 >> /\ ret.pct = FromInt(100)

\* C19: for a count list of length n < 2, _trend_confidence returns slope 0,
\* pct 0, lastDelta 0, score 0.5 and the label Medium; for n >= 2, lastDelta
\* is count[n-1] - count[n-2] (the last count less the one before it).
C19_ShortListDefaults ==
    Done("_trend_confidence") =>
        LET n == Len(call.vals)
        IN  /\ ret.exc = "none"
            /\ n < 2 => /\ ret.slope = FZero
                        /\ ret.pct = FZero
                        /\ ret.last_delta = 0
                        /\ ret.score = FHalf
                        /\ ret.conf_label = "Média"
            /\ n >= 2 => ret.last_delta = call.vals[n] - call.vals[n - 1]

\* one count alone; an empty list; a last count below the one before it
C19_Witness ==
    /\ Done("_trend_confidence")
    /\ call.vals = << MaxCount >>
    /\ ret.score = FHalf
    /\ ret.last_delta = 0
C19_Empty == Done("_trend_confidence") /\ call.vals = << >> /\ ret.conf_label = "Média"
C19_Delta ==
    Done("_trend_confidence") /\ call.vals = << 0, MaxCount, 1 >> /\ ret.last_delta = 1 - MaxCount

\* the headline contains the word, letter case apart
ContainsAnyCase(titulo, w) ==
    \E i \in 1..(Len(titulo) - Len(w) + 1) :
        \A k \in 1..Len(w) : LowerCode(titulo[i + k - 1]) = LowerCode(w[k])

\* the headline holds a trigger of the category of index j of the table
Triggers(titulo, j) ==
    \E k \in 1..Len(palavras_chave[j].palavras) :
        ContainsAnyCase(titulo, palavras_chave[j].palavras[k])

\* the headlines that hold a trigger of category j, by index
Matching(titulos, j) == {i \in 1..Len(titulos) : Triggers(titulos[i], j)}

Smallest(S) == CHOOSE x \in S : \A y \in S : x <= y

\* category j is first matched before category l: in an earlier headline, or
\* in the same headline and earlier in the table
FirstMatchedBefore(titulos, j, l) ==
    LET a == Smallest(Matching(titulos, j))
        b == Smallest(Matching(titulos, l))
    IN  a < b \/ (a = b /\ j < l)

TableIndex(k) == CHOOSE j \in 1..Len(palavras_chave) : palavras_chave[j].tema = k

\* C20: the count the theme classifier reports for a category is the number
\* of headlines that contain, letter case apart, at least one trigger of the
\* category; categories no headline matches are absent; the output is in
\* descending order of count, categories of equal count in the order in which
\* they were first matched.
C20_ThemeCounts ==
    Done("_extract_key_themes") =>
        /\ ret.exc = "none"
        /\ \A j \in 1..Len(palavras_chave) :
             LET hits == Cardinality(Matching(call.titulos, j))
                 at   == {i \in 1..Len(ret.temas) : ret.temas[i].k = palavras_chave[j].tema}
             IN  IF hits = 0 THEN at = {}
                 ELSE Cardinality(at) = 1 /\ \A i \in at : ret.temas[i].v = hits
        /\ \A i \in 1..Len(ret.temas) :
             \E j \in 1..Len(palavras_chave) : palavras_chave[j].tema = ret.temas[i].k
        /\ \A i \in 1..(Len(ret.temas) - 1) :
             \/ ret.temas[i].v > ret.temas[i + 1].v
             \/ /\ ret.temas[i].v = ret.temas[i + 1].v
                /\ FirstMatchedBefore(call.titulos, TableIndex(ret.temas[i].k),
                                      TableIndex(ret.temas[i + 1].k))

\* two headlines: medidas, matched after governo, is counted twice and comes
\* first; governo and segurança, counted once, keep their order
C20_Witness ==
    /\ Done("_extract_key_themes")
    /\ call.titulos = << TituloGoverno, TituloLei >>
    /\ ret.temas = << [k |-> Tema_medidas, v |-> 2], [k |-> Tema_governo, v |-> 1],
                      [k |-> Tema_seguranca, v |-> 1] >>

\* a headline in capitals is matched; one without triggers adds no category
C20_Capitals ==
    /\ Done("_extract_key_themes")
    /\ call.titulos = << TituloChuva, TituloEleicao >>
    /\ Len(ret.temas) = 2
    /\ ret.temas[1] = [k |-> Tema_politica, v |-> 1]

\* the nine domains
Domains ==
    {Tipo_economia, Tipo_seguranca, Tipo_politica, Tipo_saude, Tipo_educacao,
     Tipo_tecnologia, Tipo_meio_ambiente, Tipo_social, Tipo_geral}

\* the domains of which the text contains a trigger, letter case apart
DomainsIn(str) ==
    {topic_patterns[j].tipo : j \in {l \in 1..Len(topic_patterns) :
        \E k \in 1..Len(topic_patterns[l].palavras) :
            ContainsAnyCase(str, topic_patterns[l].palavras[k])}}

\* the domains of which one of the category names contains a trigger
DomainsOfCategories(names) == UNION {DomainsIn(names[i]) : i \in 1..Len(names)}

\* C21: the dominant-domain detector returns one of the nine fixed domains; a
\* domain matched by the topic text takes precedence over the headline
\* categories, which are consulted only when the topic matches no domain; the
\* result is general exactly when neither the topic nor the top-ranked
\* headline categories contain a domain trigger.
C21_DominantDomain ==
    Done("_detect_topic_type") =>
        /\ ret.exc = "none"
        /\ ret.tipo \in Domains
        /\ DomainsIn(call.tema) # {} => ret.tipo \in DomainsIn(call.tema)
        /\ DomainsIn(call.tema) = {} =>
             \/ ret.tipo \in DomainsOfCategories(call.temas_principais)
             \/ ret.tipo = Tipo_geral
        /\ ret.tipo = Tipo_geral <=>
             (DomainsIn(call.tema) = {} /\ DomainsOfCategories(call.temas_principais) = {})

\* the topic names politics while the headline categories name health
C21_Witness ==
    /\ Done("_detect_topic_type")
    /\ call.tema = TemaEleicao
    /\ call.temas_principais = << Tipo_saude >>
    /\ ret.tipo = Tipo_politica

\* a topic without triggers: the categories decide, or nothing does
C21_FromCategories ==
    /\ Done("_detect_topic_type")
    /\ call.tema = TemaX
    /\ Len(call.temas_principais) = 2
    /\ call.temas_principais[2] = Tipo_tecnologia
    /\ DomainsIn(call.temas_principais[1]) = {}
    /\ ret.tipo = Tipo_tecnologia
C21_General ==
    /\ Done("_detect_topic_type")
    /\ call.tema = TemaX
    /\ Len(call.temas_principais) = 2
    /\ ret.tipo = Tipo_geral

\* the five bands of the sentiment mean, in thousandths
Band(n) ==
    IF n < -400 THEN "very negative"
    ELSE IF n < -200 THEN "negative"
    ELSE IF n <= 200 THEN "neutral"
    ELSE IF n <= 400 THEN "positive"
    ELSE "very positive"

AlertOf(band) ==
    CASE band = "very negative" -> "ALTO"
      [] band = "negative"      -> "MODERADO"
      [] band = "neutral"       -> "ESTÁVEL"
      [] band = "positive"      -> "POSITIVO"
      [] band = "very positive" -> "MUITO POSITIVO"

ToneOf(band) ==
    CASE band = "very negative" -> "preocupante"
      [] band = "negative"      -> "cauteloso"
      [] band = "neutral"       -> "equilibrado"
      [] band = "positive"      -> "favorável"
      [] band = "very positive" -> "otimista"

DirectionOf(band) ==
    CASE band \in {"very negative", "negative"} -> "negativo"
      [] band = "neutral"                       -> "neutro"
      [] band \in {"very positive", "positive"} -> "positivo"

\* C22: the short-term narrative puts the sentiment mean s in exactly one of
\* five bands, s < -0.4 very negative, -0.4 <= s < -0.2 negative,
\* -0.2 <= s <= 0.2 neutral, 0.2 < s <= 0.4 positive, s > 0.4 very positive;
\* the alert level and the tone word are those of the band, a different pair
\* for each band, and the trend phrase is the first phrase the table holds
\* for the domain (the general one for a domain outside the table) and the
\* coarse direction of the band.
C22_ShortTermBands ==
    Done("_generate_short_term_prediction") =>
        /\ ret.previsao.nivel_alerta = AlertOf(Band(call.milli))
        /\ ret.previsao.tom = ToneOf(Band(call.milli))
        /\ ret.previsao.tendencia_desc =
               TemplateOf(call.tipo_tema)[DirectionOf(Band(call.milli))][1]

\* a mean of exactly -0.4 is in the negative band, not the very negative one
C22_Witness ==
    /\ Done("_generate_short_term_prediction")
    /\ call.milli = -400
    /\ call.tipo_tema = Tipo_seguranca
    /\ ret.previsao.nivel_alerta = "MODERADO"
    /\ ret.previsao.tom = "cauteloso"

C22_VeryNegative ==
    /\ Done("_generate_short_term_prediction")
    /\ call.milli = -401
    /\ ret.previsao.nivel_alerta = "ALTO"
C22_NeutralEdge ==
    /\ Done("_generate_short_term_prediction")
    /\ call.milli = 200
    /\ call.tipo_tema = Tipo_social
    /\ ret.previsao.tom = "equilibrado"
C22_VeryPositive ==
    /\ Done("_generate_short_term_prediction")
    /\ call.milli = 401
    /\ ret.previsao.tom = "otimista"

\* C23 as stated: for every sentiment mean the long-term narrative says "high
\* probability" when there are more than 20 articles and "moderate
\* probability" otherwise, its magnitude phrase is one of the five phrases of
\* the catalog, and its year range starts at the current year and ends at the
\* current year, the next one or the one after.
C23_SampleSizeGateOriginal ==
    Done("_generate_long_term_prediction") =>
        /\ ret.previsao.certeza =
               IF call.total_noticias > 20 THEN "alta probabilidade" ELSE "moderada probabilidade"
        /\ ret.previsao.tendencia \in
               {"deterioração significativa", "estagnação ou leve deterioração",
                "melhora moderada", "melhora significativa",
                "estabilidade com flutuações normais"}
        /\ ret.previsao.de = ord2ymd(today).year
        /\ ret.previsao.ate - ret.previsao.de \in {0, 1, 2}

\* the outcome of the long-term narrative for a mean in thousandths and a
\* number of articles: the gate is consulted only beyond -0.3 and 0.3
LongTermOutcome(n, total) ==
    IF n < -300
    THEN (IF total > 20
          THEN [tendencia |-> "deterioração significativa", years |-> 1,
                certeza |-> "alta probabilidade"]
          ELSE [tendencia |-> "possível deterioração", years |-> 2,
                certeza |-> "moderada probabilidade"])
    ELSE IF n < -100
    THEN [tendencia |-> "estagnação ou leve deterioração", years |-> 1,
          certeza |-> "moderada probabilidade"]
    ELSE IF n > 300
    THEN (IF total > 20
          THEN [tendencia |-> "melhora significativa", years |-> 1,
                certeza |-> "alta probabilidade"]
          ELSE [tendencia |-> "progresso gradual", years |-> 2,
                certeza |-> "moderada probabilidade"])
    ELSE IF n > 100
    THEN [tendencia |-> "melhora moderada", years |-> 1,
          certeza |-> "moderada probabilidade"]
    ELSE [tendencia |-> "estabilidade com flutuações normais", years |-> 1,
          certeza |-> "probabilidade equilibrada"]

\* C23, amended: the sample-size gate is consulted only for a sentiment mean
\* below -0.3 or above 0.3, where more than 20 articles give "high
\* probability", a significant magnitude and a range ending next year, and 20
\* or fewer give "moderate probability", a possible or gradual magnitude and
\* a range ending two years on; a mean in [-0.3, -0.1) or (0.1, 0.3] gives
\* "moderate probability" and a mean in [-0.1, 0.1] "balanced probability",
\* whatever the number of articles, with a range ending next year; the year
\* range starts at the current year.
C23_SampleSizeGate ==
    Done("_generate_long_term_prediction") =>
        LET o == LongTermOutcome(call.milli, call.total_noticias)
        IN  /\ ret.previsao.certeza = o.certeza
            /\ ret.previsao.tendencia = o.tendencia
            /\ ret.previsao.de = ord2ymd(today).year
            /\ ret.previsao.ate = ret.previsao.de + o.years

\* more than 20 articles with a mildly negative mean: moderate probability
C23_Witness ==
    /\ Done("_generate_long_term_prediction")
    /\ call.milli = -300
    /\ call.total_noticias = 21
    /\ ret.previsao.certeza = "moderada probabilidade"
    /\ ret.previsao.tendencia = "estagnação ou leve deterioração"

C23_HighProbability ==
    /\ Done("_generate_long_term_prediction")
    /\ call.milli = 301
    /\ call.total_noticias = 21
    /\ ret.previsao.certeza = "alta probabilidade"
C23_FewArticles ==
    /\ Done("_generate_long_term_prediction")
    /\ call.milli = -301
    /\ call.total_noticias = 20
    /\ ret.previsao.tendencia = "possível deterioração"
    /\ ret.previsao.ate = ret.previsao.de + 2
C23_Balanced ==
    /\ Done("_generate_long_term_prediction")
    /\ call.milli = 100
    /\ call.total_noticias = 21
    /\ ret.previsao.certeza = "probabilidade equilibrada"

\* base_i and the bound 0.2 * avgValue of a series, as exact multiples of
\* 1 / (10 * n); j = i + 1 is the position of the predicted point
BaseTimes10n(series, j) ==
    LET n    == Len(series)
        S    == SumInts(Counts(series))
        last == series[n].count
        b    == 10 * n * last + (S - n * last) * j
    IN  IF b < 0 THEN 0 ELSE b

BoundTimes10n(series) == 2 * SumInts(Counts(series))

\* max(0, round(base + p)) = c for some p with |p| <= 0.2 * avgValue
RoundsTo(series, j, c) ==
    /\ c >= 0
    /\ BaseTimes10n(series, j) - BoundTimes10n(series) <= 10 * Len(series) * c + 5 * Len(series)
    /\ BaseTimes10n(series, j) + BoundTimes10n(series) >= 10 * Len(series) * c - 5 * Len(series)

\* int(max(0, x)) = c for some x within 0.2 * avgValue of base_i, the error of
\* the binary64 computation apart, which stays below 1 / (10 * n)
TruncatesTo(series, j, c) ==
    /\ c >= 0
    /\ BaseTimes10n(series, j) - BoundTimes10n(series) - 1 < 10 * Len(series) * (c + 1)
    /\ BaseTimes10n(series, j) + BoundTimes10n(series) + 1 >= 10 * Len(series) * c

\* C24: for a series of n >= 3 points and every i in 0..H-1, the i-th
\* predicted count is max(0, round(base_i + p_i)) for a perturbation p_i with
\* |p_i| <= 0.2 * avgValue, base_i = max(0, lastValue + (avgValue - lastValue)
\* * 0.1 * (i + 1)): the prediction is rounded to the nearest integer and the
\* perturbation stays within the bound.
C24_RoundedPrediction ==
    (Done("generate_future_predictions") /\ Len(call.series) >= 3 /\ ret.exc = "none") =>
        \A j \in 1..Len(ret.previsoes) : RoundsTo(call.series, j, ret.previsoes[j].count)

\* what the code does instead: the i-th predicted count is the integer part
\* of max(0, base_i + p_i) for a perturbation within the bound, computed in
\* binary64
C24_TruncatedPrediction ==
    (Done("generate_future_predictions") /\ Len(call.series) >= 3 /\ ret.exc = "none") =>
        \A j \in 1..Len(ret.previsoes) : TruncatesTo(call.series, j, ret.previsoes[j].count)

\* a point whose count no rounding of a prediction within the bound gives
C24_Witness ==
    /\ Done("generate_future_predictions")
    /\ Len(call.series) >= 3
    /\ ret.exc = "none"
    /\ \E j \in 1..Len(ret.previsoes) :
          /\ ~RoundsTo(call.series, j, ret.previsoes[j].count)
          /\ TruncatesTo(call.series, j, ret.previsoes[j].count)

\* min(0.8, k / 10), k a number of points
ConfidenceOf(k) == FMin(FLit(8, 10), FLit(k, 10))

\* C25: the forecast confidence is min(0.8, sampleSize / 10), sampleSize the
\* number of points of the series: it lies in [0, 0.8], a longer series never
\* has a lower one, and it is 0 only for the insufficient-data result of a
\* series of fewer than 3 points.
C25_ForecastConfidence ==
    (Done("generate_future_predictions") /\ ret.exc = "none") =>
        LET n == Len(call.series)
        IN  /\ n >= 3 => FCmp(ret.confianca, ConfidenceOf(n)) = 0
            /\ FGe(ret.confianca, FZero) /\ FLe(ret.confianca, FLit(8, 10))
            /\ \A k \in 3..n : FLe(ConfidenceOf(k), ret.confianca)
            /\ FIsZero(ret.confianca) <=> (n < 3 /\ ret.previsoes = << >>)

\* a series of 7 points: 0.7, below the cap
C25_Witness ==
    /\ Done("generate_future_predictions")
    /\ Len(call.series) = 7
    /\ ret.exc = "none"
    /\ FCmp(ret.confianca, FLit(7, 10)) = 0

C25_Short ==
    /\ Done("generate_future_predictions")
    /\ Len(call.series) = 2
    /\ FIsZero(ret.confianca)
C25_Capped ==
    /\ Done("generate_future_predictions")
    /\ Len(call.series) > 8
    /\ ret.exc = "none"
    /\ FCmp(ret.confianca, FLit(8, 10)) = 0

\* the positions of the points of a series of consecutive days ending at the
\* clock date that fall on weekday d (0 = Monday)
OnWeekday(series, d) ==
    {i \in 1..Len(series) : (today - Len(series) + i + 6) % 7 = d}

\* n * Sxy - Sx * Sy of the counts against the positions 0..n-1
SlopeNumerator(counts) ==
    Len(counts) * SumInts([i \in 1..Len(counts) |-> (i - 1) * counts[i]])
        - SumInts([i \in 1..Len(counts) |-> i - 1]) * SumInts(counts)

\* C26: for a series of at least 7 consecutive days detect_patterns returns a
\* weekly pattern with an entry for each of the 7 weekdays, the entry of a
\* weekday being the mean of the counts of the series days on that weekday,
\* a slope (with the sign of the least-squares slope of the counts) and a
\* volatility >= 0 (0 exactly when the counts are all equal); for a series of
\* fewer than 7 points the pattern is marked unavailable and neither slope
\* nor volatility is computed.
C26_WeeklyPattern ==
    Done("detect_patterns") =>
        LET series == call.series
            counts == Counts(series)
        IN  IF Len(series) >= 7
            THEN /\ ret.exc = "none"
                 /\ DOMAIN ret.sazonalidade = 0..6
                 /\ \A d \in 0..6 :
                      LET on == OnWeekday(series, d)
                      IN  FCmp(ret.sazonalidade[d],
                               FLit(SumInts([i \in 1..Len(series) |->
                                                IF i \in on THEN counts[i] ELSE 0]),
                                    Cardinality(on))) = 0
                 /\ FCmp(ret.tendencia, FZero) =
                        (IF SlopeNumerator(counts) > 0 THEN 1
                         ELSE IF SlopeNumerator(counts) < 0 THEN -1 ELSE 0)
                 /\ FGe(ret.volatilidade, FZero)
                 /\ FIsZero(ret.volatilidade) <=> (\A i \in 1..Len(counts) : counts[i] = counts[1])
            ELSE /\ ret.exc = "none"
                 /\ ret.sazonalidade = "None"
                 /\ ret.tendencia = "insuficiente"
                 /\ DOMAIN ret = {"exc", "sazonalidade", "tendencia"}

\* 9 days: two weekdays have the mean of two counts, 1.5
C26_Witness ==
    /\ Done("detect_patterns")
    /\ Len(call.series) = 9
    /\ ret.exc = "none"
    /\ Cardinality({d \in DOMAIN ret.sazonalidade :
                       FCmp(ret.sazonalidade[d], FLit(3, 2)) = 0}) = 2
    /\ FGt(ret.volatilidade, FZero)

C26_Unavailable ==
    /\ Done("detect_patterns")
    /\ Len(call.series) = 5
    /\ ret.sazonalidade = "None"

C27_Same ==
    /\ Done("slopes")
    /\ call.vals = << 0, 3, 1 >>
    /\ FCmp(ret.trend.v, ret.confidence.slope) = 0
    /\ FCmp(ret.trend.v, FLit(1, 2)) = 0
\* the counts 0, 0, 1, 0, 0: the sum form gives 0, the centred form does not
C27_NotZero ==
    /\ Done("slopes")
    /\ call.vals = << 0, 0, 1, 0, 0 >>
    /\ FIsZero(ret.trend.v)
    /\ FGt(ret.confidence.slope, FZero)

\* the cache key of the finished call
KeyOfCall == _key(call.tema, OrDefault(call.max_items))

\* the entry of the key was younger than the TTL when the call began
SawFresh == env.seen >= 0 /\ env.seen < RSS_TTL_SECONDS

\* C28: the article cache never serves data older than its TTL: an entry is
\* returned only while its age is strictly below the TTL; fetch returns the
\* cached list without any network request while the entry of the same
\* normalised topic and max_items is fresh, and goes back to the network
\* when there is no entry or its age has reached the TTL.
C28_CacheWithinTtl ==
    Done("fetch") =>
        /\ env.requests = 0 <=> SawFresh
        /\ SawFresh => /\ ret.exc = "none"
                       /\ ret.items = cache[KeyOfCall].value
        /\ ~SawFresh => "net" \in DOMAIN env

\* an entry stored under "x" answers " X" half a TTL later
C28_Witness ==
    /\ Done("fetch")
    /\ call.tema = TemaXSpaced
    /\ env.seen = TickSeconds
    /\ env.requests = 0
    /\ Len(ret.items) = 2
    /\ ret.items = cache[_key(TemaXLower, RSS_MAX_ITEMS)].value

\* an entry whose age has reached the TTL: the call goes to the network
C28_Expired ==
    /\ Done("fetch")
    /\ env.seen = RSS_TTL_SECONDS
    /\ env.requests = 2
    /\ cache[KeyOfCall].age = 0

\* C29: a call of fetch that misses the cache makes at least one and at most
\* 3 HTTP attempts, stops at the first attempt that succeeds and ends after
\* the third failure; a failed fetch (3 failed attempts or a parse error)
\* stores the empty list, and a fetch that finds a fresh empty entry under
\* its key returns the empty list without any HTTP attempt.
C29_AttemptsAndEmptyEntry ==
    Done("fetch") =>
        /\ env.requests \in 0..3
        /\ ~env.hit =>
             LET a   == env.net.attempts
                 oks == {i \in 1..Len(a) : i <= 3 /\ a[i] = "ok"}
             IN  /\ env.requests >= 1
                 /\ oks # {} => /\ env.requests \in oks
                                /\ \A i \in oks : env.requests <= i
                 /\ oks = {} => env.requests = 3
                 /\ (oks = {} \/ env.net.body.kind = "malformed") =>
                        /\ ret.exc = "none"
                        /\ ret.items = << >>
                        /\ KeyOfCall \in DOMAIN cache
                        /\ cache[KeyOfCall].value = << >>
        /\ (SawFresh /\ cache[KeyOfCall].value = << >>) =>
              /\ ret.exc = "none"
              /\ ret.items = << >>
              /\ env.requests = 0

\* three failed attempts, and the empty list they left is still fresh
C29_Witness ==
    /\ Done("fetch")
    /\ ~env.hit
    /\ env.requests = 3
    /\ env.net.attempts = << "timeout", "http_error", "timeout" >>
    /\ cache[KeyOfCall] = [age |-> TickSeconds, value |-> << >>]

C29_EmptyHit ==
    /\ Done("fetch")
    /\ env.hit
    /\ env.seen = TickSeconds
    /\ ret.items = << >>
C29_FirstSuccess ==
    /\ Done("fetch")
    /\ ~env.hit
    /\ env.net.attempts = << "ok", "timeout", "ok" >>
    /\ env.requests = 1
    /\ Len(ret.items) = 2
C29_ParseError ==
    /\ Done("fetch")
    /\ ~env.hit
    /\ env.requests = 2
    /\ env.net.body.kind = "malformed"
    /\ cache[KeyOfCall] = [age |-> 0, value |-> << >>]

\* the calls that returned in the 60 seconds that start at time t
ReturnedIn(t) == {j \in 1..Len(reqs) : reqs[j] >= t /\ reqs[j] < t + Minute}

\* C30: for any sequence of wait_if_needed calls by one caller, the number of
\* calls that return from wait_if_needed within any interval of 60 seconds
\* of real time never exceeds calls_per_minute, the calls that slept first
\* included.
C30_LimitEnforced ==
    call.op = "wait_if_needed" =>
        \A i \in 1..Len(reqs) : Cardinality(ReturnedIn(reqs[i])) <= calls_per_minute

\* a call that slept is recorded at the time it arrived, not the time it
\* returned
C30_RecordedBeforeSleep ==
    (call.op = "wait_if_needed" /\ ret.exc = "none" /\ ret.slept > 0) =>
        /\ cache[Len(cache)] = reqs[Len(reqs)] - ret.slept
        /\ cache[Len(cache)] < env.clock

\* a call returns after its sleep while the limit is already used up by
\* calls that returned within the last 60 seconds
C30_Witness ==
    /\ call.op = "wait_if_needed"
    /\ ret.exc = "none"
    /\ ret.slept > 0
    /\ Cardinality(ReturnedIn(reqs[Len(reqs)] - Minute + 1)) > calls_per_minute

====
